---- MODULE Spec2Model ----
(***************************************************************************)
(* Model of the signal broadcaster (src/signal_bot/broadcaster.py): the    *)
(* fan-out coordinator broadcast_signal, the per-subscriber unit           *)
(* _execute_for_subscriber / _execute_trade_sync, and the confirmation     *)
(* entry points execute_single_trade and execute_with_amount.              *)
(*                                                                         *)
(* trade_executor.py's TradeExecutor.execute_signal and its lot sizer       *)
(* calculate_quantity_from_usd are modelled beside it.                     *)
(*                                                                         *)
(* Amounts, balances and prices are whole USDT.  A quantity q is held as   *)
(* the integer q * QScale (two decimal places), an order value likewise.   *)
(* None is -1.                                                             *)
(***************************************************************************)
EXTENDS Integers, Sequences, FiniteSets, TLC

\* ------------------------------------------------------------------ bounds
MaxSubs == 2          \* active subscribers returned by the database

\* --------------------------------------------------------------- constants
None == -1                    \* Optional[...] = None
MIN_NOTIONAL_USDT == 5        \* broadcaster.py:249
MIN_BALANCE_USDT == 1         \* broadcaster.py:198

QScale == 10 * 10             \* quantities and values carry two decimals

Truthy(x) == x # None /\ x # 0

MinOf(a, b) == IF a <= b THEN a ELSE b

\* ------------------------------------------------------------------ inputs
\* Subscriber.trade_mode is a plain string that the coordinator compares with
\* "AUTO" and "MANUAL"; "OTHER" stands for every other value of the field.
TradeModes == {"AUTO", "MANUAL", "OTHER"}

\* trade_amount_usdt / max_leverage of the subscriber with telegram_id i.
AmountOf(i) == IF i % 3 = 1 THEN 50 ELSE IF i % 3 = 2 THEN 10 ELSE 4
MaxLeverageOf(i) == IF i % 2 = 1 THEN 3 ELSE 10

Subscriber(i, mode) ==
    [telegram_id |-> i, api_secret |-> i, trade_mode |-> mode,
     trade_amount_usdt |-> AmountOf(i), max_leverage |-> MaxLeverageOf(i)]

\* Every list of at most MaxSubs active subscribers, telegram ids 1..n.
SubscriberLists ==
    UNION { { [i \in 1..n |-> Subscriber(i, m[i])] : m \in [1..n -> TradeModes] }
            : n \in 0..MaxSubs }

\* The signals: market or limit, with or without an entry price, with or
\* without SL/TP, and a leverage of 2 or 20 (below or above the subscribers'
\* caps) laid out so that each leverage meets each value of the other fields.
Signals ==
    { [signal_id |-> 7, symbol |-> "XRPUSDT", signal_type |-> "LONG",
       order_type |-> ot, entry_price |-> ep, stop_loss |-> sl,
       take_profit |-> IF sl = None THEN None ELSE 3,
       leverage |-> IF (ot = "MARKET") = ((ep = None) = (sl = None))
                    THEN 20 ELSE 2]
      : ot \in {"MARKET", "LIMIT"}, ep \in {None, 2}, sl \in {None, 1} }

\* ------------------------------------------------- the external environment
\* What the trading API (and the trade-record write) answer to one unit.
\* assets.get: lot step 0.1, minimum quantity 0.1, maximum 1000
Asset == [quantity_step |-> 10, min_quantity |-> 10, max_quantity |-> 1000 * QScale]

\* assets.get for an instrument traded in coarse lots: lot step 5.0, minimum
\* quantity 30, maximum 40
CoarseAsset == [quantity_step |-> 500, min_quantity |-> 3000, max_quantity |-> 40 * QScale]

OkEnv ==
    [client |-> "ok", balance_resp |-> "ok", balance |-> 100,
     asset_resp |-> "found", asset |-> Asset, leverage_resp |-> "ok", order_resp |-> "ok",
     positions_resp |-> "match", risk_resp |-> "ok", record_resp |-> "ok"]

\* The unit returns at the first response that is not the all-OK one, so an
\* environment is the all-OK run with at most one trading-API deviation (a
\* failure, a lower balance or the other instrument); the trade-record write
\* fails or not independently.
ApiEnvs ==
    { OkEnv,
      [OkEnv EXCEPT !.client = "raise"],
      [OkEnv EXCEPT !.balance_resp = "raise"],
      [OkEnv EXCEPT !.balance_resp = "none"],
      [OkEnv EXCEPT !.balance = 0],
      [OkEnv EXCEPT !.balance = 20],
      [OkEnv EXCEPT !.asset_resp = "raise"],
      [OkEnv EXCEPT !.asset_resp = "none"],
      [OkEnv EXCEPT !.asset = CoarseAsset],
      [OkEnv EXCEPT !.leverage_resp = "raise"],
      [OkEnv EXCEPT !.order_resp = "raise"],
      [OkEnv EXCEPT !.positions_resp = "raise"],
      [OkEnv EXCEPT !.positions_resp = "none"],
      [OkEnv EXCEPT !.risk_resp = "raise"] }

Envs == { [e EXCEPT !.record_resp = r] : e \in ApiEnvs, r \in {"ok", "raise"} }

\* ------------------------------------------------------------- TradeResult
\* Faulty variant: available_balance defaults to 0.0 instead of None.
TradeResultZeroBalance(subscriber, status, message) ==
    [subscriber_id |-> subscriber.telegram_id, status |-> status,
     message |-> message, order_id |-> None, quantity |-> None,
     actual_value |-> None, side |-> "None", order_type |-> "None",
     entry_price |-> None, available_balance |-> 0]

TradeResult(subscriber, status, message) ==
    [subscriber_id |-> subscriber.telegram_id, status |-> status,
     message |-> message, order_id |-> None, quantity |-> None,
     actual_value |-> None, side |-> "None", order_type |-> "None",
     entry_price |-> None, available_balance |-> None]

\* The non-success results of the unit carry the signal's side and order type.
Rejected(signal, subscriber, status, message) ==
    [TradeResult(subscriber, status, message) EXCEPT
        !.side = signal.signal_type, !.order_type = signal.order_type]

\* One call on the trading API, with the arguments the properties read.
Call(name, leverage, price, quantity) ==
    [call |-> name, leverage |-> leverage, price |-> price, quantity |-> quantity]

\* mudrex.utils.calculate_order_from_usd as the broadcaster uses it: the raw
\* quantity rounded down to the lot step, and its value at the given price.
CalculateOrderFromUsd(usd_amount, price, quantity_step) ==
    LET raw_qty == (usd_amount * QScale) \div price
        qty == (raw_qty \div quantity_step) * quantity_step
    IN  [qty |-> qty, actual_value |-> qty * price]

\* Faulty variant: the signal's leverage is used uncapped.
RawLeverage(signal, subscriber) == signal.leverage

\* leverage = min(signal.leverage, subscriber.max_leverage)
EffectiveLeverage(signal, subscriber) ==
    MinOf(signal.leverage, subscriber.max_leverage)

\* The id the trading API gives the order it accepts on an account.
OrderIdOf(subscriber) == 1000 + subscriber.api_secret

\* Faulty variant: sl_tp_set is raised before set_risk_order is called, so a
\* failed attachment is reported as set.
AttachRiskOrderFlagFirst(signal, env) ==
    IF ~(Truthy(signal.stop_loss) \/ Truthy(signal.take_profit))
    THEN [calls |-> <<>>, note |-> "plain"]
    ELSE LET list == <<Call("list_open", None, None, None)>>
             risk == <<Call("set_risk_order", None, None, None)>>
         IN  CASE env.positions_resp = "raise" ->
                    [calls |-> list, note |-> "sltp_failed"]
               [] env.positions_resp = "none" ->
                    [calls |-> list, note |-> "no_position"]
               [] OTHER ->
                    [calls |-> list \o risk, note |-> "sltp_set"]

\* Faulty variant: the attachment is attempted for every accepted order,
\* whether or not the signal carries a stop-loss or a take-profit.
AttachRiskOrderAlways(signal, env) ==
    LET list == <<Call("list_open", None, None, None)>>
        risk == <<Call("set_risk_order", None, None, None)>>
    IN  CASE env.positions_resp = "raise" ->
               [calls |-> list, note |-> "sltp_failed"]
          [] env.positions_resp = "none" ->
               [calls |-> list, note |-> "no_position"]
          [] env.risk_resp = "raise" ->
               [calls |-> list \o risk, note |-> "sltp_failed"]
          [] OTHER ->
               [calls |-> list \o risk, note |-> "sltp_set"]

\* Lines 300-331: SL/TP after the order is placed.  Returns the calls made
\* and the note appended to the success message.
AttachRiskOrder(signal, env) ==
    IF ~(Truthy(signal.stop_loss) \/ Truthy(signal.take_profit))
    THEN [calls |-> <<>>, note |-> "plain"]
    ELSE LET list == <<Call("list_open", None, None, None)>>
             risk == <<Call("set_risk_order", None, None, None)>>
         IN  CASE env.positions_resp = "raise" ->
                    [calls |-> list, note |-> "sltp_failed"]
               [] env.positions_resp = "none" ->
                    [calls |-> list, note |-> "no_position"]
               [] env.risk_resp = "raise" ->
                    [calls |-> list \o risk, note |-> "sltp_failed"]
               [] OTHER ->
                    [calls |-> list \o risk, note |-> "sltp_set"]

\* Faulty variant: SL/TP is attached before the order is submitted.
SubmitOrderRiskFirst(signal, subscriber, env, leverage, sized, calls) ==
    LET order == IF signal.order_type = "MARKET"
                 THEN Call("create_market_order", leverage, None, sized.qty)
                 ELSE Call("create_limit_order", leverage, signal.entry_price,
                           sized.qty)
        sltp == AttachRiskOrder(signal, env)
        calls2 == Append(calls \o sltp.calls, order)
    IN  IF env.order_resp = "raise"
        THEN [raised |-> FALSE, calls |-> calls2,
              result |-> Rejected(signal, subscriber, "API_ERROR", "error")]
        ELSE [raised |-> FALSE, calls |-> calls2,
              result |-> [TradeResult(subscriber, "SUCCESS", sltp.note) EXCEPT
                            !.order_id = OrderIdOf(subscriber),
                            !.quantity = sized.qty,
                            !.actual_value = sized.actual_value,
                            !.side = signal.signal_type,
                            !.order_type = signal.order_type,
                            !.entry_price = signal.entry_price]]

\* Faulty variant: the order call has a handler of its own, and SL/TP is
\* attempted whether or not the order was accepted.
SubmitOrderAttachAlways(signal, subscriber, env, leverage, sized, calls) ==
    LET order == IF signal.order_type = "MARKET"
                 THEN Call("create_market_order", leverage, None, sized.qty)
                 ELSE Call("create_limit_order", leverage, signal.entry_price,
                           sized.qty)
        calls2 == Append(calls, order)
        sltp == AttachRiskOrder(signal, env)
    IN  IF env.order_resp = "raise"
        THEN [raised |-> FALSE, calls |-> calls2 \o sltp.calls,
              result |-> Rejected(signal, subscriber, "API_ERROR", "error")]
        ELSE [raised |-> FALSE, calls |-> calls2 \o sltp.calls,
              result |-> [TradeResult(subscriber, "SUCCESS", sltp.note) EXCEPT
                            !.order_id = OrderIdOf(subscriber),
                            !.quantity = sized.qty,
                            !.actual_value = sized.actual_value,
                            !.side = signal.signal_type,
                            !.order_type = signal.order_type,
                            !.entry_price = signal.entry_price]]

\* Faulty variant: a failed order call is tried a second time.
SubmitOrderRetried(signal, subscriber, env, leverage, sized, calls) ==
    LET order == IF signal.order_type = "MARKET"
                 THEN Call("create_market_order", leverage, None, sized.qty)
                 ELSE Call("create_limit_order", leverage, signal.entry_price,
                           sized.qty)
        calls2 == Append(calls, order)
        sltp == AttachRiskOrder(signal, env)
    IN  IF env.order_resp = "raise"
        THEN [raised |-> FALSE, calls |-> Append(calls2, order),
              result |-> Rejected(signal, subscriber, "API_ERROR", "error")]
        ELSE [raised |-> FALSE, calls |-> calls2 \o sltp.calls,
              result |-> [TradeResult(subscriber, "SUCCESS", sltp.note) EXCEPT
                            !.order_id = OrderIdOf(subscriber),
                            !.quantity = sized.qty,
                            !.actual_value = sized.actual_value,
                            !.side = signal.signal_type,
                            !.order_type = signal.order_type,
                            !.entry_price = signal.entry_price]]

\* Lines 273-344: submit the order, attach the risk order, build the result.
SubmitOrder(signal, subscriber, env, leverage, sized, calls) ==
    LET order == IF signal.order_type = "MARKET"
                 THEN Call("create_market_order", leverage, None, sized.qty)
                 ELSE Call("create_limit_order", leverage, signal.entry_price,
                           sized.qty)
        calls2 == Append(calls, order)
        sltp == AttachRiskOrder(signal, env)
    IN  IF env.order_resp = "raise"
        THEN [raised |-> FALSE, calls |-> calls2,
              result |-> Rejected(signal, subscriber, "API_ERROR", "error")]
        ELSE [raised |-> FALSE, calls |-> calls2 \o sltp.calls,
              result |-> [TradeResult(subscriber, "SUCCESS", sltp.note) EXCEPT
                            !.order_id = OrderIdOf(subscriber),
                            !.quantity = sized.qty,
                            !.actual_value = sized.actual_value,
                            !.side = signal.signal_type,
                            !.order_type = signal.order_type,
                            !.entry_price = signal.entry_price]]

\* Faulty variant: the value, held in hundredths, is compared with the
\* unscaled minimum.
BelowMinNotionalUnscaled(actual_value) == actual_value < MIN_NOTIONAL_USDT

\* Line 250: if actual_value < MIN_NOTIONAL_USDT
BelowMinNotional(actual_value) == actual_value < MIN_NOTIONAL_USDT * QScale

\* Faulty variant: a failed leverage.set is swallowed and the unit goes on.
SizeAndSubmitLeverageSwallowed(signal, subscriber, env, calls) ==
    LET leverage == EffectiveLeverage(signal, subscriber)
        calls2 == Append(calls, Call("leverage.set", leverage, None, None))
        price == IF Truthy(signal.entry_price) THEN signal.entry_price ELSE 1
        sized == CalculateOrderFromUsd(subscriber.trade_amount_usdt, price,
                                       env.asset.quantity_step)
    IN  CASE BelowMinNotional(sized.actual_value) ->
               [raised |-> FALSE, calls |-> calls2,
                result |-> Rejected(signal, subscriber, "API_ERROR",
                                    "below_min_notional")]
          [] sized.qty < env.asset.min_quantity ->
               [raised |-> FALSE, calls |-> calls2,
                result |-> Rejected(signal, subscriber, "API_ERROR",
                                    "quantity_too_small")]
          [] OTHER -> SubmitOrder(signal, subscriber, env, leverage, sized, calls2)

\* Lines 231-271: set the leverage, size the order, check it.
SizeAndSubmit(signal, subscriber, env, calls) ==
    LET leverage == EffectiveLeverage(signal, subscriber)
        calls2 == Append(calls, Call("leverage.set", leverage, None, None))
        price == IF Truthy(signal.entry_price) THEN signal.entry_price ELSE 1
        sized == CalculateOrderFromUsd(subscriber.trade_amount_usdt, price,
                                       env.asset.quantity_step)
    IN  CASE env.leverage_resp = "raise" ->
               [raised |-> FALSE, calls |-> calls2,
                result |-> Rejected(signal, subscriber, "API_ERROR", "error")]
          [] BelowMinNotional(sized.actual_value) ->
               [raised |-> FALSE, calls |-> calls2,
                result |-> Rejected(signal, subscriber, "API_ERROR",
                                    "below_min_notional")]
          [] sized.qty < env.asset.min_quantity ->
               [raised |-> FALSE, calls |-> calls2,
                result |-> Rejected(signal, subscriber, "API_ERROR",
                                    "quantity_too_small")]
          [] OTHER -> SubmitOrder(signal, subscriber, env, leverage, sized, calls2)

\* Faulty variant: only the absolute floor is checked.
BalanceBelowFloor(balance, subscriber) == balance < MIN_BALANCE_USDT

\* Line 196: if balance < subscriber.trade_amount_usdt
BalanceInsufficient(balance, subscriber) == balance < subscriber.trade_amount_usdt

\* Faulty variant: the result carries the requested amount as available.
InsufficientBalanceRequested(signal, subscriber, balance) ==
    [Rejected(signal, subscriber, "INSUFFICIENT_BALANCE", "requested_available")
     EXCEPT !.available_balance = subscriber.trade_amount_usdt]

\* Lines 197-217: the two INSUFFICIENT_BALANCE results, below the 1 USDT
\* floor and at or above it; both carry the fetched balance.
InsufficientBalance(signal, subscriber, balance) ==
    [Rejected(signal, subscriber, "INSUFFICIENT_BALANCE",
              IF balance < MIN_BALANCE_USDT THEN "balance_too_low"
              ELSE "requested_available")
     EXCEPT !.available_balance = balance]

\* _execute_trade_sync: what it returns (or that it raised) and the calls it
\* made on the subscriber's account.
ExecuteTradeSync(signal, subscriber, env) ==
    LET c1 == <<Call("get_futures_balance", None, None, None)>>
        c2 == Append(c1, Call("assets.get", None, None, None))
        balance == IF env.balance_resp = "none" THEN 0 ELSE env.balance
    IN  CASE env.client = "raise" ->
               \* MudrexClient(...) is built outside the try block
               [raised |-> TRUE, calls |-> <<>>,
                result |-> TradeResult(subscriber, "API_ERROR", "error")]
          [] env.balance_resp = "raise" ->
               [raised |-> FALSE, calls |-> c1,
                result |-> Rejected(signal, subscriber, "API_ERROR", "error")]
          [] BalanceInsufficient(balance, subscriber) ->
               [raised |-> FALSE, calls |-> c1,
                result |-> InsufficientBalance(signal, subscriber, balance)]
          [] env.asset_resp = "raise" ->
               [raised |-> FALSE, calls |-> c2,
                result |-> Rejected(signal, subscriber, "API_ERROR", "error")]
          [] env.asset_resp = "none" ->
               [raised |-> FALSE, calls |-> c2,
                result |-> Rejected(signal, subscriber, "SYMBOL_NOT_FOUND",
                                    "symbol_not_found")]
          [] OTHER -> SizeAndSubmit(signal, subscriber, env, c2)

\* Faulty variant: the row's status is derived from the order id alone.
TradeRowByOrderId(signal, subscriber, result) ==
    [telegram_id |-> subscriber.telegram_id,
     signal_id |-> signal.signal_id,
     side |-> signal.signal_type,
     order_type |-> signal.order_type,
     status |-> IF result.order_id # None THEN "SUCCESS" ELSE "API_ERROR",
     quantity |-> result.quantity,
     entry_price |-> result.entry_price,
     error_message |-> result.message]

\* Lines 162-172: the row record_trade is asked to write.
TradeRow(signal, subscriber, result) ==
    [telegram_id |-> subscriber.telegram_id,
     signal_id |-> signal.signal_id,
     side |-> IF result.side # "None" THEN result.side ELSE signal.signal_type,
     order_type |-> IF result.order_type # "None" THEN result.order_type
                    ELSE signal.order_type,
     status |-> result.status,
     quantity |-> IF Truthy(result.quantity) THEN result.quantity ELSE None,
     entry_price |-> result.entry_price,
     error_message |-> IF result.status # "SUCCESS" THEN result.message
                       ELSE "None"]

\* _execute_for_subscriber: the unit in a worker thread, then the trade-record
\* write.  raised: an exception leaves the coroutine; rows: the row written.
ExecuteForSubscriber(signal, subscriber, env) ==
    LET unit == ExecuteTradeSync(signal, subscriber, env)
        result == IF unit.raised
                  THEN Rejected(signal, subscriber, "API_ERROR", "error")
                  ELSE unit.result
        row == TradeRow(signal, subscriber, result)
    IN  [raised |-> env.record_resp = "raise",
         result |-> result,
         calls |-> unit.calls,
         rows |-> IF env.record_resp = "raise" THEN <<>> ELSE <<row>>]

\* ------------------------------------------- trade_executor.py: TradeExecutor
\* Decimal(str(raw_qty)).quantize(Decimal(str(quantity_step)), ROUND_DOWN)
\* cuts raw_qty to the number of decimal places str(quantity_step) shows (a
\* float prints at least one): the quantum, as a scaled quantity.
QuantizeUnit(quantity_step) == IF quantity_step % 10 # 0 THEN 1 ELSE 10

MaxOf(a, b) == IF a >= b THEN a ELSE b

\* Faulty variant: the value is taken from the raw quantity.
CalculateQuantityValueOfRaw(usd_amount, price, quantity_step, min_quantity, max_quantity) ==
    IF price <= 0 THEN [qty |-> 0, actual_value |-> 0]
    ELSE LET raw_qty == (usd_amount * QScale) \div price
             unit == QuantizeUnit(quantity_step)
             rounded == IF quantity_step > 0
                        THEN (raw_qty \div unit) * unit
                        ELSE raw_qty
             qty == MinOf(max_quantity, MaxOf(min_quantity, rounded))
         IN  [qty |-> qty, actual_value |-> raw_qty * price]

\* Faulty variant: a non-positive price is not turned away; the raw quantity
\* counts as zero and is clamped like any other.
CalculateQuantityUnguarded(usd_amount, price, quantity_step, min_quantity, max_quantity) ==
    LET raw_qty == IF price <= 0 THEN 0 ELSE (usd_amount * QScale) \div price
        unit == QuantizeUnit(quantity_step)
        rounded == IF quantity_step > 0
                   THEN (raw_qty \div unit) * unit
                   ELSE raw_qty
        qty == MinOf(max_quantity, MaxOf(min_quantity, rounded))
    IN  [qty |-> qty, actual_value |-> qty * price]

\* calculate_quantity_from_usd, lines 73-96 (qty_str is the quantity printed).
CalculateQuantityFromUsd(usd_amount, price, quantity_step, min_quantity, max_quantity) ==
    IF price <= 0 THEN [qty |-> 0, actual_value |-> 0]
    ELSE LET raw_qty == (usd_amount * QScale) \div price
             unit == QuantizeUnit(quantity_step)
             rounded == IF quantity_step > 0
                        THEN (raw_qty \div unit) * unit
                        ELSE raw_qty
             qty == MinOf(max_quantity, MaxOf(min_quantity, rounded))
         IN  [qty |-> qty, actual_value |-> qty * price]

\* The arguments of one calculate_quantity_from_usd call, and none.
SizeArgs(usd_amount, price, quantity_step, min_quantity, max_quantity) ==
    [usd_amount |-> usd_amount, price |-> price, quantity_step |-> quantity_step,
     min_quantity |-> min_quantity, max_quantity |-> max_quantity]

NoArgs == SizeArgs(None, None, None, None, None)
NoSize == [qty |-> None, actual_value |-> None]

ExecutionResult(signal, status, message) ==
    [status |-> status, message |-> message, signal_id |-> signal.signal_id,
     order |-> None, quantity |-> None]

\* _set_leverage, lines 153-169: caps the leverage again before the call.
SetLeverageCall(leverage, max_leverage) ==
    Call("leverage.set", MinOf(leverage, max_leverage), None, None)

\* Lines 239-313 of execute_signal: place the order, attach SL/TP.
PlaceOrder(signal, executor, env, actual_leverage, sized, calls) ==
    LET order == IF signal.order_type = "MARKET"
                 THEN Call("create_market_order", actual_leverage, None,
                           sized.qty)
                 ELSE Call("create_limit_order", actual_leverage,
                           signal.entry_price, sized.qty)
        calls2 == Append(calls, order)
        sltp == AttachRiskOrder(signal, env)
    IN  CASE env.order_resp = "raise" ->
               [calls |-> calls2,
                result |-> ExecutionResult(signal, "ORDER_FAILED", "order_failed")]
          [] env.order_resp = "raise_other" ->
               [calls |-> calls2,
                result |-> ExecutionResult(signal, "API_ERROR", "error")]
          [] OTHER ->
               [calls |-> calls2 \o sltp.calls,
                result |-> [ExecutionResult(signal, "SUCCESS",
                                IF sltp.note \in {"plain", "sltp_set"}
                                THEN sltp.note ELSE "sltp_pending")
                            EXCEPT !.order = OrderIdOf(executor),
                                   !.quantity = sized.qty]]

\* execute_signal, lines 171-313.  _check_balance, _get_asset and
\* _set_leverage swallow the exception of their call (0.0, None, False).
\* size_args / size_ret: the lot sizer's arguments and what it returned, when
\* the call got that far.
ExecuteSignal(signal, executor, env) ==
    LET c1 == <<Call("get_futures_balance", None, None, None)>>
        c2 == Append(c1, Call("assets.get", None, None, None))
        balance == IF env.balance_resp \in {"raise", "none"} THEN 0
                   ELSE env.balance
        actual_leverage == MinOf(signal.leverage, executor.max_leverage)
        c3 == Append(c2, SetLeverageCall(actual_leverage, executor.max_leverage))
        price == IF Truthy(signal.entry_price) THEN signal.entry_price ELSE 1
        args == SizeArgs(executor.trade_amount_usdt, price,
                         env.asset.quantity_step, env.asset.min_quantity,
                         env.asset.max_quantity)
        sized == CalculateQuantityFromUsd(args.usd_amount, args.price,
                     args.quantity_step, args.min_quantity, args.max_quantity)
        unsized == [size_args |-> NoArgs, size_ret |-> NoSize]
        was_sized == [size_args |-> args, size_ret |-> sized]
    IN  CASE balance < executor.trade_amount_usdt ->
               unsized @@
               [calls |-> c1,
                result |-> ExecutionResult(signal, "INSUFFICIENT_BALANCE",
                                           "insufficient_balance")]
          [] env.asset_resp \in {"raise", "none"} ->
               unsized @@
               [calls |-> c2,
                result |-> ExecutionResult(signal, "SYMBOL_NOT_FOUND",
                                           "symbol_not_found")]
          [] env.leverage_resp = "raise" ->
               unsized @@
               [calls |-> c3,
                result |-> ExecutionResult(signal, "LEVERAGE_ERROR",
                                           "leverage_error")]
          [] sized.qty = 0 \/ sized.qty < env.asset.min_quantity ->
               was_sized @@
               [calls |-> c3,
                result |-> ExecutionResult(signal, "ORDER_FAILED",
                                           "quantity_below_minimum")]
          [] OTHER ->
               was_sized @@
               PlaceOrder(signal, executor, env, actual_leverage, sized, c3)

\* ------------------------------------------------------------ coordinator
\* Faulty variant: one client, with the first account's credentials, is
\* shared by all units.
SharedClientAccount(subscriber) == 1

\* The account a unit's client talks to: MudrexClient(api_secret=subscriber.api_secret)
ClientAccount(subscriber) == subscriber.api_secret

\* Faulty variant: the trade_mode filter is missing.
WithModeUnfiltered(subs, mode) == subs

\* [s for s in subscribers if s.trade_mode == mode], in the supplied order
RECURSIVE WithMode(_, _)
WithMode(subs, mode) ==
    IF subs = <<>> THEN <<>>
    ELSE IF Head(subs).trade_mode = mode
         THEN <<Head(subs)>> \o WithMode(Tail(subs), mode)
         ELSE WithMode(Tail(subs), mode)

\* ---------------------------------------------- format_broadcast_summary
\* The values of TradeStatus (broadcaster.py 27-33).
TradeStatuses ==
    {"SUCCESS", "INSUFFICIENT_BALANCE", "SYMBOL_NOT_FOUND", "API_ERROR",
     "SKIPPED", "PENDING_CONFIRMATION"}

\* sum(1 for r in results if r.status == status)
CountStatus(results, status) ==
    Cardinality({ k \in 1..Len(results) : results[k].status = status })

NoCounts == [success |-> None, insufficient |-> None, failed |-> None,
             manual |-> None, total |-> None]

\* The arguments of one format_broadcast_summary call and the counts it
\* showed, and none.
SummaryOf(results, manual_count, shown) ==
    [results |-> results, manual_count |-> manual_count, shown |-> shown]

NoSummary == SummaryOf(<<>>, None, NoCounts)

\* format_broadcast_summary, lines 425-445: the numbers of the lines Success,
\* Insufficient Balance, Failed, Manual (a line shown for manual_count > 0;
\* 0 stands for no line) and Total.
SummaryCounts(results, manual_count) ==
    [success |-> CountStatus(results, "SUCCESS"),
     insufficient |-> CountStatus(results, "INSUFFICIENT_BALANCE"),
     failed |-> CountStatus(results, "API_ERROR"),
     manual |-> IF manual_count > 0 THEN manual_count ELSE 0,
     total |-> Len(results) + manual_count]

\* ------------------------------------- telegram_bot.py: the signal gate
\* settings.admin_telegram_id and settings.signal_channel_id, and any other
\* user and chat.
AdminTelegramId == "admin"
SignalChannelId == "signal_channel"

\* What handle_signal_message reads of the update: the text (none, plain or
\* starting with '/'), from_user.id (or no from_user), chat_id and chat.type.
Message(text, user_id, chat_id, chat_type) ==
    [text |-> text, user_id |-> user_id, chat_id |-> chat_id,
     chat_type |-> chat_type]

NoMessage == Message("none", "none", "none", "none")

Messages ==
    { Message(text, user_id, chat_id, chat_type) :
        text \in {"none", "plain", "command"},
        user_id \in {"none", AdminTelegramId, "other_user"},
        chat_id \in {SignalChannelId, "other_chat"},
        chat_type \in {"private", "group", "channel"} }

\* _is_admin, lines 73-75
IsAdmin(user_id) == user_id = AdminTelegramId

\* _is_signal_channel, lines 77-79
IsSignalChannel(chat_id) == chat_id = SignalChannelId

\* Faulty variant: the chat type is not looked at.
IsAdminDmAnyChat(msg) ==
    msg.user_id # "none" /\ IsAdmin(msg.user_id)

\* Line 499: user_id and self._is_admin(user_id) and message.chat.type == "private"
IsAdminDm(msg) ==
    msg.user_id # "none" /\ IsAdmin(msg.user_id) /\ msg.chat_type = "private"

\* Lines 481-506: the message has a text that starts with '/', and comes from
\* the admin's private chat or from the signal channel.
Accepted(msg) ==
    /\ msg.text = "command"
    /\ IsAdminDm(msg) \/ IsSignalChannel(msg.chat_id)

\* What SignalParser.parse makes of an accepted text.
ParseOutcomes == {"Signal", "SignalClose", "None", "SignalParseError"}

\* ---------------------------------- telegram_bot.py: the registration flow
\* context.user_data of the registering user: the keys 'api_key' and
\* 'api_secret', each absent or holding what the user sent.
UserData(api_key, api_secret) == [api_key |-> api_key, api_secret |-> api_secret]

\* context.user_data.clear()
ClearedUserData == UserData("absent", "absent")

\* The conversation: the user (update.effective_user.id), the user's
\* temporary data, how the credential validation call ended ("none": it was
\* not made), the add_subscriber rows written and the last reply sent.
Registration(user, user_data, validation, stored, reply) ==
    [user |-> user, user_data |-> user_data, validation |-> validation,
     stored |-> stored, reply |-> reply]

NoRegistration == Registration(None, ClearedUserData, "none", <<>>, "none")

\* How asyncio.wait_for(asyncio.to_thread(validate_api, api_secret), 15.0)
\* ends: a balance, None, TimeoutError, or an exception of the call.
ValidationOutcomes == {"balance", "no_balance", "timeout", "raise"}

\* The texts a user sends as the amount: not a number, below 1, two valid
\* amounts, above 10000.
AmountTexts == {"abc", "0", "20", "100", "20000"}

\* float(text) of the texts that are numbers
AmountOfText(text) ==
    CASE text = "0" -> 0
      [] text = "20" -> 20
      [] text = "100" -> 100
      [] text = "20000" -> 20000
      [] OTHER -> None

\* ------------------------------------- trade_executor.py: close_position
\* A SignalClose: the signal it closes and the percentage to close, if any.
SignalClose(signal_id, partial_percent) ==
    [signal_id |-> signal_id, partial_percent |-> partial_percent]

NoClose == SignalClose(None, None)

\* No partial_percent, and 0, 25, 50, 100 and 150 percent.
SignalCloses ==
    { SignalClose(7, partial_percent) : partial_percent \in {None, 0, 25, 50, 100, 150} }

\* What the trading API answers to one close_position call: positions.get
\* (a position of quantity 1.0 or 10.0, None, or an exception), assets.get
\* and the close call (True, False, or an exception).
CloseEnvs ==
    { [position_resp |-> p, position |-> [quantity |-> q], asset_resp |-> a,
       asset |-> asset, close_resp |-> c]
      : p \in {"found", "none", "raise"}, q \in {QScale, 10 * QScale},
        a \in {"found", "none", "raise"}, asset \in {Asset, CoarseAsset},
        c \in {"ok", "false", "raise"} }

\* Line 401: if close.partial_percent and close.partial_percent < 100
IsPartialClose(c) == Truthy(c.partial_percent) /\ c.partial_percent < 100

\* Lines 403-415: the quantity of the partial close.  _get_asset swallows the
\* exception of its call; without an asset the quantity is not rounded.
PartialCloseQuantity(c, env) ==
    LET close_qty == (env.position.quantity * c.partial_percent) \div 100
        step == env.asset.quantity_step
    IN  IF env.asset_resp = "found"
        THEN (close_qty \div step) * step
        ELSE close_qty

\* close_position, lines 379-460: the calls it makes and what it returns.
ClosePosition(c, env) ==
    LET get == <<Call("positions.get", None, None, None)>>
        asset == Append(get, Call("assets.get", None, None, None))
        qty == PartialCloseQuantity(c, env)
    IN  CASE env.position_resp = "raise" ->
               [calls |-> get, result |-> ExecutionResult(c, "API_ERROR", "error")]
          [] env.position_resp = "none" ->
               [calls |-> get,
                result |-> ExecutionResult(c, "POSITION_NOT_FOUND",
                                           "position_not_found")]
          [] IsPartialClose(c) ->
               [calls |-> Append(asset, Call("positions.close_partial", None,
                                             None, qty)),
                result |-> IF env.close_resp = "raise"
                           THEN ExecutionResult(c, "API_ERROR", "error")
                           ELSE ExecutionResult(c, "SUCCESS", "partial_close")]
          [] OTHER ->
               [calls |-> Append(get, Call("positions.close", None, None, None)),
                result |-> IF env.close_resp = "ok"
                           THEN ExecutionResult(c, "SUCCESS", "position_closed")
                           ELSE ExecutionResult(c, "API_ERROR",
                                    IF env.close_resp = "raise" THEN "error"
                                    ELSE "failed_to_close")]

\* -------------------------------------------------------------------- state
VARIABLES
    op,                 \* the entry point that is called
    signal,             \* its Signal argument
    db_subscribers,     \* the active subscribers stored in the database
    pc,                 \* where the call is
    auto_subscribers,   \* broadcast_signal's local lists
    manual_subscribers,
    tasks,              \* one task per AUTO subscriber
    completed,          \* the task indices in the order the tasks ended
    db_signals,         \* number of save_signal writes
    db_trades,          \* telegram_id -> the rows record_trade wrote
    api_calls,          \* account -> the trading-API calls made on it
    ret,                \* what the call returned, or that it raised
    run,                \* 1, or 2 in the rerun with an injected failure
    victim,             \* the account whose trading API fails in run 2
    first,              \* run 1: the result statuses and the environments
    size_args,          \* the arguments of the lot sizer call
    size_ret,           \* what the lot sizer returned
    db_closed,          \* number of close_signal writes
    notified,           \* telegram_id -> the outcome notifications sent to it
    summary,            \* format_broadcast_summary's arguments and its counts
    message,            \* the Telegram message handle_signal_message is given
    registration,       \* one user's registration conversation
    close               \* close_position's SignalClose argument

vars == <<op, signal, db_subscribers, pc, auto_subscribers, manual_subscribers,
          tasks, completed, db_signals, db_trades, api_calls, ret, run, victim,
          first, size_args, size_ret, db_closed, notified, summary,
          message, registration, close>>

Ids == 1..MaxSubs

\* Faulty variant: the exceptions are filtered out, not converted.
GatherDropExceptions(ts, autos) ==
    LET kept == SelectSeq(ts, LAMBDA t : t.st # "raised")
    IN  [k \in 1..Len(kept) |-> kept[k].result]

\* Faulty variant: the results are collected in the order the tasks ended.
GatherAsCompleted(ts, autos) ==
    [k \in 1..Len(ts) |->
        LET i == completed[k]
        IN  IF ts[i].st = "raised"
            THEN TradeResult(autos[i], "API_ERROR", "error")
            ELSE ts[i].result]

\* Lines 112-126: asyncio.gather(*tasks, return_exceptions=True) keeps the
\* tasks' order; an exception becomes an API_ERROR result of the subscriber at
\* the same index.
GatherResults(ts, autos) ==
    [i \in 1..Len(ts) |->
        IF ts[i].st = "raised"
        THEN TradeResult(autos[i], "API_ERROR", "error")
        ELSE ts[i].result]

NoReturn == [kind |-> "none", results |-> <<>>, deferred |-> <<>>]
Returned(results, deferred) ==
    [kind |-> "returned", results |-> results, deferred |-> deferred]
Raised == [kind |-> "raised", results |-> <<>>, deferred |-> <<>>]

PendingTask == [st |-> "pending", env |-> OkEnv, result |-> <<>>]

Ops == {"broadcast_signal", "execute_single_trade", "execute_with_amount",
        "execute_signal", "broadcast_close"}

\* TradeExecutor's order call can fail with MudrexAPIError or with another
\* exception; the two end in different statuses there.
ExecutorEnvs == ApiEnvs \cup {[OkEnv EXCEPT !.order_resp = "raise_other"]}

OverrideAmounts == {3, 20}

\* Nothing has run yet.
Idle ==
    /\ pc = "start"
    /\ auto_subscribers = <<>>
    /\ manual_subscribers = <<>>
    /\ tasks = <<>>
    /\ completed = <<>>
    /\ db_signals = 0
    /\ db_trades = [i \in Ids |-> <<>>]
    /\ api_calls = [i \in Ids |-> <<>>]
    /\ ret = NoReturn
    /\ run = 1
    /\ victim = 0
    /\ first = <<>>
    /\ size_ret = NoSize
    /\ db_closed = 0
    /\ notified = [i \in Ids |-> 0]

Init ==
    /\ op \in Ops
    /\ signal \in Signals
    /\ db_subscribers \in SubscriberLists
    /\ size_args = NoArgs
    /\ summary = NoSummary
    /\ message = NoMessage
    /\ registration = NoRegistration
    /\ close = NoClose
    /\ Idle

\* In run 2 the database answers as it did in run 1, the victim's account
\* fails every trading-API call, and every other account answers as before.
DbResponses == IF run = 1 THEN {"ok", "raise"} ELSE {"ok"}

EnvChoices(i, account) ==
    CASE run = 1 -> Envs
      [] account = victim ->
            {[OkEnv EXCEPT !.balance_resp = "raise",
                           !.record_resp = first.envs[i].record_resp]}
      [] OTHER -> {first.envs[i]}

\* broadcast_signal is called directly, or by the bot's _handle_new_signal.
BroadcastCallers == {"broadcast_signal", "handle_new_signal"}

\* Lines 79-91: read the subscribers, return early when there are none,
\* split them by trade_mode.
GetActiveSubscribers ==
    /\ op \in BroadcastCallers
    /\ pc = "start"
    /\ \E resp \in DbResponses :
        IF resp = "raise"
        THEN /\ pc' = "raised"
             /\ ret' = Raised
             /\ UNCHANGED <<auto_subscribers, manual_subscribers>>
        ELSE IF db_subscribers = <<>>
        THEN /\ pc' = "returned"
             /\ ret' = Returned(<<>>, <<>>)
             /\ UNCHANGED <<auto_subscribers, manual_subscribers>>
        ELSE /\ pc' = "save_signal"
             /\ auto_subscribers' = WithMode(db_subscribers, "AUTO")
             /\ manual_subscribers' = WithMode(db_subscribers, "MANUAL")
             /\ ret' = ret
    /\ UNCHANGED <<close, registration, message, summary, op, signal, db_subscribers, tasks, completed, db_signals,
                   db_trades, api_calls, run, victim, first, size_args, size_ret,
                   db_closed, notified>>

\* Faulty variant: a failed save_signal is logged and the broadcast goes on.
SaveSignalSwallowed ==
    /\ pc = "save_signal"
    /\ \E resp \in DbResponses :
        /\ db_signals' = IF resp = "raise" THEN db_signals ELSE db_signals + 1
        /\ IF auto_subscribers = <<>>
           THEN /\ pc' = "returned"
                /\ ret' = Returned(<<>>, manual_subscribers)
                /\ tasks' = tasks
           ELSE /\ pc' = "gather"
                /\ tasks' = [i \in 1..Len(auto_subscribers) |-> PendingTask]
                /\ ret' = ret
    /\ UNCHANGED <<close, registration, message, summary, op, signal, db_subscribers, auto_subscribers,
                   manual_subscribers, completed, db_trades, api_calls, run,
                   victim, first, size_args, size_ret,
                   db_closed, notified>>

\* Lines 93-110 (and 131-134 when there is no AUTO subscriber): write the
\* signal, then create one task per AUTO subscriber.
SaveSignal ==
    /\ pc = "save_signal"
    /\ \E resp \in DbResponses :
        IF resp = "raise"
        THEN /\ pc' = "raised"
             /\ ret' = Raised
             /\ UNCHANGED <<db_signals, tasks>>
        ELSE /\ db_signals' = db_signals + 1
             /\ IF auto_subscribers = <<>>
                THEN /\ pc' = "returned"
                     /\ ret' = Returned(<<>>, manual_subscribers)
                     /\ tasks' = tasks
                ELSE /\ pc' = "gather"
                     /\ tasks' = [i \in 1..Len(auto_subscribers) |-> PendingTask]
                     /\ ret' = ret
    /\ UNCHANGED <<close, registration, message, summary, op, signal, db_subscribers, auto_subscribers,
                   manual_subscribers, completed, db_trades, api_calls, run,
                   victim, first, size_args, size_ret,
                   db_closed, notified>>

\* Lines 136-174: _execute_for_subscriber for the i-th AUTO subscriber runs
\* the unit and writes the trade record; the task ends.
TaskEnds(i) ==
    /\ pc = "gather"
    /\ LET subscriber == auto_subscribers[i]
           account == ClientAccount(subscriber)
       IN \E env \in EnvChoices(i, account) :
            LET out == ExecuteForSubscriber(signal, subscriber, env)
            IN  /\ tasks' = [tasks EXCEPT ![i] =
                               [st |-> IF out.raised THEN "raised" ELSE "returned",
                                env |-> env, result |-> out.result]]
                /\ api_calls' = [api_calls EXCEPT ![account] = @ \o out.calls]
                /\ db_trades' = [db_trades EXCEPT ![subscriber.telegram_id] =
                                    @ \o out.rows]
    /\ completed' = Append(completed, i)
    /\ UNCHANGED <<close, registration, message, summary, op, signal, db_subscribers, pc, auto_subscribers,
                   manual_subscribers, db_signals, ret, run, victim, first, size_args, size_ret,
                   db_closed, notified>>

\* The task of the i-th AUTO subscriber, from its creation to its end.
RunTask(i) ==
    /\ tasks[i].st = "pending"
    /\ TaskEnds(i)

\* Lines 112-134: every task has ended; build and return the result list.
GatherReturn ==
    /\ pc = "gather"
    /\ \A i \in 1..Len(tasks) : tasks[i].st \in {"returned", "raised"}
    /\ pc' = "returned"
    /\ ret' = Returned(GatherResults(tasks, auto_subscribers), manual_subscribers)
    /\ UNCHANGED <<close, registration, message, summary, op, signal, db_subscribers, auto_subscribers,
                   manual_subscribers, tasks, completed, db_signals, db_trades,
                   api_calls, run, victim, first, size_args, size_ret,
                   db_closed, notified>>

\* Lines 383-396: the confirmation path runs the unit for one subscriber.
ExecuteSingleTrade ==
    /\ op = "execute_single_trade"
    /\ pc = "start"
    /\ \E i \in 1..Len(db_subscribers), env \in Envs :
        LET subscriber == db_subscribers[i]
            out == ExecuteForSubscriber(signal, subscriber, env)
        IN  /\ pc' = IF out.raised THEN "raised" ELSE "returned"
            /\ ret' = IF out.raised THEN Raised
                      ELSE Returned(<<out.result>>, <<>>)
            /\ tasks' = <<[st |-> IF out.raised THEN "raised" ELSE "returned",
                           env |-> env, result |-> out.result]>>
            /\ auto_subscribers' = <<subscriber>>
            /\ api_calls' = [api_calls EXCEPT
                                ![ClientAccount(subscriber)] = @ \o out.calls]
            /\ db_trades' = [db_trades EXCEPT ![subscriber.telegram_id] =
                                @ \o out.rows]
    /\ UNCHANGED <<close, registration, message, summary, op, signal, db_subscribers, manual_subscribers, completed,
                   db_signals, run, victim, first, size_args, size_ret,
                   db_closed, notified>>

\* Faulty variant: the override amount is written into the stored subscriber
\* instead of into a copy.
ExecuteWithAmountInPlace ==
    /\ op = "execute_with_amount"
    /\ pc = "start"
    /\ \E i \in 1..Len(db_subscribers), env \in Envs,
          override_amount \in OverrideAmounts :
        LET subscriber == db_subscribers[i]
            modified_subscriber ==
                [subscriber EXCEPT !.trade_amount_usdt = override_amount]
            out == ExecuteForSubscriber(signal, modified_subscriber, env)
        IN  /\ pc' = IF out.raised THEN "raised" ELSE "returned"
            /\ ret' = IF out.raised THEN Raised
                      ELSE Returned(<<out.result>>, <<>>)
            /\ tasks' = <<[st |-> IF out.raised THEN "raised" ELSE "returned",
                           env |-> env, result |-> out.result]>>
            /\ auto_subscribers' = <<modified_subscriber>>
            /\ db_subscribers' = [db_subscribers EXCEPT ![i] = modified_subscriber]
            /\ api_calls' = [api_calls EXCEPT
                                ![ClientAccount(subscriber)] = @ \o out.calls]
            /\ db_trades' = [db_trades EXCEPT ![subscriber.telegram_id] =
                                @ \o out.rows]
    /\ UNCHANGED <<close, registration, message, summary, op, signal, manual_subscribers, completed,
                   db_signals, run, victim, first, size_args, size_ret,
                   db_closed, notified>>

\* Lines 398-422: the same with trade_amount_usdt replaced in a copy.
ExecuteWithAmount ==
    /\ op = "execute_with_amount"
    /\ pc = "start"
    /\ \E i \in 1..Len(db_subscribers), env \in Envs,
          override_amount \in OverrideAmounts :
        LET subscriber == db_subscribers[i]
            modified_subscriber ==
                [subscriber EXCEPT !.trade_amount_usdt = override_amount]
            out == ExecuteForSubscriber(signal, modified_subscriber, env)
        IN  /\ pc' = IF out.raised THEN "raised" ELSE "returned"
            /\ ret' = IF out.raised THEN Raised
                      ELSE Returned(<<out.result>>, <<>>)
            /\ tasks' = <<[st |-> IF out.raised THEN "raised" ELSE "returned",
                           env |-> env, result |-> out.result]>>
            /\ auto_subscribers' = <<modified_subscriber>>
            /\ api_calls' = [api_calls EXCEPT
                                ![ClientAccount(subscriber)] = @ \o out.calls]
            /\ db_trades' = [db_trades EXCEPT ![subscriber.telegram_id] =
                                @ \o out.rows]
    /\ UNCHANGED <<close, registration, message, summary, op, signal, db_subscribers, manual_subscribers, completed,
                   db_signals, run, victim, first, size_args, size_ret,
                   db_closed, notified>>

\* Faulty variant: the close is written once per call and once more.
BroadcastCloseTwice ==
    /\ op = "broadcast_close"
    /\ pc = "start"
    /\ \E resp \in DbResponses :
        IF resp = "raise"
        THEN /\ pc' = "raised"
             /\ ret' = Raised
             /\ db_closed' = db_closed
        ELSE /\ pc' = "returned"
             /\ ret' = Returned(<<>>, <<>>)
             /\ db_closed' = db_closed + 2
    /\ UNCHANGED <<close, registration, message, summary, op, signal, db_subscribers, auto_subscribers,
                   manual_subscribers, tasks, completed, db_signals, db_trades,
                   api_calls, run, victim, first, size_args, size_ret, notified>>

\* broadcast_close, lines 367-381: close_signal is awaited, then [] returned.
BroadcastClose ==
    /\ op = "broadcast_close"
    /\ pc = "start"
    /\ \E resp \in DbResponses :
        IF resp = "raise"
        THEN /\ pc' = "raised"
             /\ ret' = Raised
             /\ db_closed' = db_closed
        ELSE /\ pc' = "returned"
             /\ ret' = Returned(<<>>, <<>>)
             /\ db_closed' = db_closed + 1
    /\ UNCHANGED <<close, registration, message, summary, op, signal, db_subscribers, auto_subscribers,
                   manual_subscribers, tasks, completed, db_signals, db_trades,
                   api_calls, run, victim, first, size_args, size_ret, notified>>

\* TradeExecutor.execute_signal for an executor set up with the amount, the
\* leverage cap and the credentials of one stored subscriber.
ExecuteSignalCall ==
    /\ op = "execute_signal"
    /\ pc = "start"
    /\ \E i \in 1..Len(db_subscribers), env \in ExecutorEnvs :
        LET executor == db_subscribers[i]
            out == ExecuteSignal(signal, executor, env)
        IN  /\ pc' = "returned"
            /\ ret' = Returned(<<out.result>>, <<>>)
            /\ tasks' = <<[st |-> "returned", env |-> env, result |-> out.result]>>
            /\ auto_subscribers' = <<executor>>
            /\ api_calls' = [api_calls EXCEPT
                                ![ClientAccount(executor)] = @ \o out.calls]
            /\ size_args' = out.size_args
            /\ size_ret' = out.size_ret
    /\ UNCHANGED <<close, registration, message, summary, op, signal, db_subscribers, manual_subscribers, completed,
                   db_signals, db_trades, run, victim, first,
                   db_closed, notified>>

\* The rerun of the same broadcast (same signal, subscribers and responses)
\* with the trading API of one AUTO subscriber's account failing.
InjectFailure ==
    /\ op = "broadcast_signal"
    /\ pc = "returned"
    /\ run = 1
    /\ tasks # <<>>
    /\ \E i \in 1..Len(auto_subscribers) :
          victim' = auto_subscribers[i].api_secret
    /\ run' = 2
    /\ first' = [statuses |-> [i \in 1..Len(ret.results) |-> ret.results[i].status],
                 envs |-> [i \in 1..Len(tasks) |-> tasks[i].env]]
    /\ pc' = "start"
    /\ auto_subscribers' = <<>>
    /\ manual_subscribers' = <<>>
    /\ tasks' = <<>>
    /\ completed' = <<>>
    /\ db_signals' = 0
    /\ db_trades' = [i \in Ids |-> <<>>]
    /\ api_calls' = [i \in Ids |-> <<>>]
    /\ ret' = NoReturn
    /\ UNCHANGED <<close, registration, message, summary, op, signal, db_subscribers, size_args, size_ret, db_closed,
                   notified>>

RunSomeTask == \E i \in 1..Len(tasks) : RunTask(i)

Next ==
    \/ GetActiveSubscribers
    \/ SaveSignal
    \/ RunSomeTask
    \/ GatherReturn
    \/ ExecuteSingleTrade
    \/ ExecuteWithAmount
    \/ ExecuteSignalCall
    \/ BroadcastClose

Spec == Init /\ [][Next]_vars

\* Two runs of one broadcast, the second with an injected failure.
InitIso ==
    /\ Init
    /\ op = "broadcast_signal"
    /\ signal.entry_price = 2
    /\ signal.stop_loss # None

NextIso ==
    \/ GetActiveSubscribers
    \/ SaveSignal
    \/ RunSomeTask
    \/ GatherReturn
    \/ InjectFailure

SpecIso == InitIso /\ [][NextIso]_vars

\* ------------------------------------------- asyncio.to_thread's workers
\* asyncio.to_thread (line 144) runs the unit on a thread of the event loop's
\* default executor, which has a fixed number of threads (min(32, cpu + 4));
\* MaxWorkers stands for that number.  A unit holds its thread until
\* _execute_trade_sync returns; no call of the unit has a timeout.
MaxWorkers == 1

BusyWorkers ==
    Cardinality({ i \in 1..Len(tasks) : tasks[i].st \in {"running", "hung"} })

\* A thread takes the unit of the i-th task; the unit's trading-API calls
\* return in time ("running") or one of them never returns ("hung").
StartUnit(i) ==
    /\ pc = "gather"
    /\ tasks[i].st = "pending"
    /\ BusyWorkers < MaxWorkers
    /\ \E st \in {"running", "hung"} :
          tasks' = [tasks EXCEPT ![i].st = st]
    /\ UNCHANGED <<close, registration, message, summary, op, signal, db_subscribers, pc, auto_subscribers,
                   manual_subscribers, completed, db_signals, db_trades,
                   api_calls, ret, run, victim, first, size_args, size_ret,
                   db_closed, notified>>

\* The unit of a running task returns, the trade record is written and the
\* thread is free again.
FinishUnit(i) ==
    /\ tasks[i].st = "running"
    /\ TaskEnds(i)

StartSomeUnit == \E i \in 1..Len(tasks) : StartUnit(i)
FinishSomeUnit == \E i \in 1..Len(tasks) : FinishUnit(i)

InitPool ==
    /\ op = "broadcast_signal"
    /\ signal \in {s \in Signals : s.entry_price = 2 /\ s.order_type = "MARKET"
                                   /\ s.stop_loss = None}
    /\ db_subscribers \in SubscriberLists
    /\ size_args = NoArgs
    /\ summary = NoSummary
    /\ message = NoMessage
    /\ registration = NoRegistration
    /\ close = NoClose
    /\ Idle

NextPool ==
    \/ GetActiveSubscribers
    \/ SaveSignal
    \/ StartSomeUnit
    \/ FinishSomeUnit
    \/ GatherReturn

SpecPool == InitPool /\ [][NextPool]_vars

\* ------------------------------------- telegram_bot.py: _handle_new_signal
\* What the bot binds to its variable results (line 535): the value
\* broadcast_signal returned, a pair of two lists; each element with its type.
BotResults(returned) ==
    << [type |-> "list", value |-> returned.results],
       [type |-> "list", value |-> returned.deferred] >>

\* format_broadcast_summary (broadcaster.py 425-445) reads r.status of every
\* element r of the results it is given; only a TradeResult has one.
FormatBroadcastSummary(results) ==
    IF \E k \in 1..Len(results) : results[k].type # "TradeResult"
    THEN "AttributeError"
    ELSE "summary"

\* The notifications the loop of lines 541-551 sends: one to the
\* subscriber_id of every element that is a TradeResult, unless sending to
\* that subscriber fails.
NotificationsSent(results, failing) ==
    [id \in Ids |->
        Cardinality({ k \in 1..Len(results) :
                        /\ results[k].type = "TradeResult"
                        /\ results[k].value.subscriber_id = id
                        /\ id \notin failing })]

\* Lines 537-551 of _handle_new_signal, after broadcast_signal returned: the
\* summary for the admin, then one message per result.  An exception of the
\* summary leaves the handler (handle_signal_message logs it).
NotifySubscribers ==
    /\ op = "handle_new_signal"
    /\ pc = "returned"
    /\ LET results == BotResults(ret)
       IN  IF FormatBroadcastSummary(results) = "AttributeError"
           THEN /\ pc' = "handler_raised"
                /\ notified' = notified
           ELSE /\ pc' = "handled"
                /\ \E failing \in SUBSET Ids :
                      notified' = NotificationsSent(results, failing)
    /\ UNCHANGED <<close, registration, message, summary, op, signal, db_subscribers, auto_subscribers,
                   manual_subscribers, tasks, completed, db_signals, db_trades,
                   api_calls, ret, run, victim, first, size_args, size_ret,
                   db_closed>>

InitBot ==
    /\ op = "handle_new_signal"
    /\ signal \in {s \in Signals : s.entry_price = 2 /\ s.order_type = "MARKET"}
    /\ db_subscribers \in SubscriberLists
    /\ size_args = NoArgs
    /\ summary = NoSummary
    /\ message = NoMessage
    /\ registration = NoRegistration
    /\ close = NoClose
    /\ Idle

NextBot ==
    \/ GetActiveSubscribers
    \/ SaveSignal
    \/ RunSomeTask
    \/ GatherReturn
    \/ NotifySubscribers

SpecBot == InitBot /\ [][NextBot]_vars

\* ------------------------------------------------------------ the lot sizer
\* calculate_quantity_from_usd called on its own, and through execute_signal.
\* usd_amount and price are whole USDT; a step and a bound are scaled
\* quantities: steps 0 (no rounding), 0.01, 0.1, 0.5 and 1.0.
MaxUsd == 12
MaxPrice == 4

Infinity == 1000 * 1000       \* max_quantity = float('inf'), the default

SizerArgs ==
    { SizeArgs(usd_amount, price, quantity_step, min_quantity, max_quantity) :
        usd_amount \in 0..MaxUsd, price \in {-2} \cup (0..MaxPrice),
        quantity_step \in {0, 1, 10, 50, 100},
        min_quantity \in {0, 10, 300}, max_quantity \in {200, Infinity} }

\* execute_signal takes any Signal: also one whose entry price is negative.
ExecutorSignals == Signals \cup { [s EXCEPT !.entry_price = -2] : s \in Signals }

InitSizer ==
    /\ op \in {"calculate_quantity_from_usd", "execute_signal"}
    /\ IF op = "execute_signal"
       THEN /\ signal \in ExecutorSignals
            /\ db_subscribers \in SubscriberLists
            /\ size_args = NoArgs
       ELSE /\ signal \in {s \in Signals : s.leverage = 2 /\ s.entry_price = 2
                                            /\ s.stop_loss = None}
            /\ db_subscribers = <<>>
            /\ size_args \in SizerArgs
    /\ summary = NoSummary
    /\ message = NoMessage
    /\ registration = NoRegistration
    /\ close = NoClose
    /\ Idle

\* One call of calculate_quantity_from_usd with the drawn arguments.
CalculateQuantity ==
    /\ op = "calculate_quantity_from_usd"
    /\ pc = "start"
    /\ size_ret' = CalculateQuantityFromUsd(size_args.usd_amount, size_args.price,
                        size_args.quantity_step, size_args.min_quantity,
                        size_args.max_quantity)
    /\ pc' = "returned"
    /\ UNCHANGED <<close, registration, message, summary, op, signal, db_subscribers, auto_subscribers,
                   manual_subscribers, tasks, completed, db_signals, db_trades,
                   api_calls, ret, run, victim, first, size_args,
                   db_closed, notified>>

NextSizer ==
    \/ CalculateQuantity
    \/ ExecuteSignalCall

SpecSizer == InitSizer /\ [][NextSizer]_vars

\* ----------------------------------------- the retry with what is available
\* A unit runs with the subscriber's configured amount on an account that
\* holds less; the operator then calls execute_with_amount with the
\* available_balance the result carries.  The balance, in whole USDT, is
\* 0..MaxBalance, below every configured amount.
MaxBalance == 6

RetryBalances == 0..MaxBalance

\* Lines 383-396: the first attempt, execute_single_trade on an account whose
\* balance is short; every other call would succeed.
FirstAttempt ==
    /\ op = "retry_with_available"
    /\ run = 1
    /\ pc = "start"
    /\ \E i \in 1..Len(db_subscribers), balance \in RetryBalances,
          record_resp \in {"ok", "raise"} :
        LET subscriber == db_subscribers[i]
            env == [OkEnv EXCEPT !.balance = balance, !.record_resp = record_resp]
            out == ExecuteForSubscriber(signal, subscriber, env)
        IN  /\ pc' = IF out.raised THEN "raised" ELSE "returned"
            /\ ret' = IF out.raised THEN Raised
                      ELSE Returned(<<out.result>>, <<>>)
            /\ tasks' = <<[st |-> IF out.raised THEN "raised" ELSE "returned",
                           env |-> env, result |-> out.result]>>
            /\ auto_subscribers' = <<subscriber>>
            /\ api_calls' = [api_calls EXCEPT
                                ![ClientAccount(subscriber)] = @ \o out.calls]
            /\ db_trades' = [db_trades EXCEPT ![subscriber.telegram_id] =
                                @ \o out.rows]
    /\ UNCHANGED <<close, registration, message, summary, op, signal, db_subscribers, manual_subscribers, completed,
                   db_signals, run, victim, first, size_args, size_ret,
                   db_closed, notified>>

\* Lines 398-422: execute_with_amount for the same signal and subscriber with
\* the returned available_balance as override_amount; the account holds what
\* it held, the instrument is found and every trading-API call succeeds.
RetryWithAvailable ==
    /\ op = "retry_with_available"
    /\ run = 1
    /\ pc = "returned"
    /\ tasks[1].result.status = "INSUFFICIENT_BALANCE"
    /\ tasks[1].result.available_balance >= MIN_BALANCE_USDT
    /\ \E asset \in {Asset, CoarseAsset}, record_resp \in {"ok", "raise"} :
        LET subscriber == auto_subscribers[1]
            override_amount == tasks[1].result.available_balance
            modified_subscriber ==
                [subscriber EXCEPT !.trade_amount_usdt = override_amount]
            env == [OkEnv EXCEPT !.balance = tasks[1].env.balance,
                                 !.asset = asset, !.record_resp = record_resp]
            out == ExecuteForSubscriber(signal, modified_subscriber, env)
        IN  /\ pc' = IF out.raised THEN "raised" ELSE "returned"
            /\ ret' = IF out.raised THEN Raised
                      ELSE Returned(<<out.result>>, <<>>)
            /\ tasks' = <<[st |-> IF out.raised THEN "raised" ELSE "returned",
                           env |-> env, result |-> out.result]>>
            /\ auto_subscribers' = <<modified_subscriber>>
            /\ api_calls' = [api_calls EXCEPT
                                ![ClientAccount(subscriber)] = @ \o out.calls]
            /\ db_trades' = [db_trades EXCEPT ![subscriber.telegram_id] =
                                @ \o out.rows]
    /\ run' = 2
    /\ first' = [statuses |-> <<tasks[1].result.status>>,
                 envs |-> <<tasks[1].env>>]
    /\ UNCHANGED <<close, registration, message, summary, op, signal, db_subscribers, manual_subscribers, completed,
                   db_signals, victim, size_args, size_ret, db_closed, notified>>

InitRetry ==
    /\ op = "retry_with_available"
    /\ signal \in Signals
    /\ db_subscribers \in SubscriberLists
    /\ size_args = NoArgs
    /\ summary = NoSummary
    /\ message = NoMessage
    /\ registration = NoRegistration
    /\ close = NoClose
    /\ Idle

NextRetry ==
    \/ FirstAttempt
    \/ RetryWithAvailable

SpecRetry == InitRetry /\ [][NextRetry]_vars

\* ------------------------------------- format_broadcast_summary on its own
\* The function is called with a list of at most MaxResults results of any
\* status and a manual_count of at most MaxManual.
MaxResults == 3
MaxManual == 2

ResultLists ==
    UNION { { [k \in 1..n |-> TradeResult(Subscriber(k, "AUTO"), st[k], "message")]
              : st \in [1..n -> TradeStatuses] }
            : n \in 0..MaxResults }

InitSummary ==
    /\ op = "format_broadcast_summary"
    /\ signal \in {s \in Signals : s.leverage = 2 /\ s.entry_price = 2
                                   /\ s.stop_loss = None}
    /\ db_subscribers = <<>>
    /\ size_args = NoArgs
    /\ summary \in { SummaryOf(results, manual_count, NoCounts) :
                        results \in ResultLists, manual_count \in 0..MaxManual }
    /\ message = NoMessage
    /\ registration = NoRegistration
    /\ close = NoClose
    /\ Idle

\* One call of format_broadcast_summary with the drawn arguments.
FormatSummary ==
    /\ op = "format_broadcast_summary"
    /\ pc = "start"
    /\ summary' = [summary EXCEPT
                      !.shown = SummaryCounts(summary.results, summary.manual_count)]
    /\ pc' = "returned"
    /\ UNCHANGED <<close, registration, message, op, signal, db_subscribers, auto_subscribers,
                   manual_subscribers, tasks, completed, db_signals, db_trades,
                   api_calls, ret, run, victim, first, size_args, size_ret,
                   db_closed, notified>>

NextSummary == FormatSummary

SpecSummary == InitSummary /\ [][NextSummary]_vars

\* ------------------------------------------------- handle_signal_message
\* Lines 479-526: a message that is not accepted is dropped; an accepted one
\* is parsed and a Signal goes to _handle_new_signal, a SignalClose to
\* _handle_close_signal, which call the broadcaster.  In _handle_new_signal
\* the reply to the sender (line 532) comes before the broadcast and may fail.
HandleSignalMessage ==
    /\ op = "handle_signal_message"
    /\ pc = "start"
    /\ IF ~Accepted(message)
       THEN /\ pc' = "ignored"
            /\ op' = op
       ELSE \E parsed \in ParseOutcomes, reply \in {"ok", "raise"} :
               CASE parsed = "Signal" /\ reply = "ok" ->
                      /\ op' = "handle_new_signal"
                      /\ pc' = "start"
                 [] parsed = "Signal" /\ reply = "raise" ->
                      /\ op' = op
                      /\ pc' = "handler_raised"
                 [] parsed = "SignalClose" ->
                      /\ op' = "broadcast_close"
                      /\ pc' = "start"
                 [] OTHER ->
                      /\ op' = op
                      /\ pc' = "ignored"
    /\ UNCHANGED <<close, registration, message, summary, signal, db_subscribers, auto_subscribers,
                   manual_subscribers, tasks, completed, db_signals, db_trades,
                   api_calls, ret, run, victim, first, size_args, size_ret,
                   db_closed, notified>>

\* One message arrives at a bot whose database holds at most one subscriber.
InitGate ==
    /\ op = "handle_signal_message"
    /\ signal \in {s \in Signals : s.leverage = 2 /\ s.entry_price = 2
                                   /\ s.stop_loss = None}
    /\ db_subscribers \in {l \in SubscriberLists : Len(l) <= 1}
    /\ size_args = NoArgs
    /\ summary = NoSummary
    /\ message \in Messages
    /\ registration = NoRegistration
    /\ close = NoClose
    /\ Idle

NextGate ==
    \/ HandleSignalMessage
    \/ GetActiveSubscribers
    \/ SaveSignal
    \/ RunSomeTask
    \/ GatherReturn
    \/ NotifySubscribers
    \/ BroadcastClose

SpecGate == InitGate /\ [][NextGate]_vars

\* ----------------------------------------------- the registration handlers
\* register_start, lines 144-170.
RegisterStart ==
    /\ op = "register"
    /\ pc = "start"
    /\ \E allow_registration \in BOOLEAN :
          IF ~allow_registration
          THEN /\ pc' = "END"
               /\ registration' = [registration EXCEPT !.reply = "closed"]
          ELSE IF \E i \in 1..Len(db_subscribers) :
                     db_subscribers[i].telegram_id = registration.user
          THEN /\ pc' = "END"
               /\ registration' = [registration EXCEPT !.reply = "already_registered"]
          ELSE /\ pc' = "AWAITING_API_KEY"
               /\ registration' = [registration EXCEPT !.reply = "send_api_key"]
    /\ UNCHANGED <<close, message, summary, op, signal, db_subscribers,
                   auto_subscribers, manual_subscribers, tasks, completed,
                   db_signals, db_trades, api_calls, ret, run, victim, first,
                   size_args, size_ret, db_closed, notified>>

\* register_api_key, lines 172-200: a text of 10 characters or more is kept
\* in user_data (a shorter one is asked for again).
RegisterApiKey ==
    /\ op = "register"
    /\ pc = "AWAITING_API_KEY"
    /\ registration' = [registration EXCEPT !.user_data.api_key = "key",
                                            !.reply = "send_api_secret"]
    /\ pc' = "AWAITING_API_SECRET"
    /\ UNCHANGED <<close, message, summary, op, signal, db_subscribers,
                   auto_subscribers, manual_subscribers, tasks, completed,
                   db_signals, db_trades, api_calls, ret, run, victim, first,
                   size_args, size_ret, db_closed, notified>>

\* register_api_secret, lines 202-233.
RegisterApiSecret ==
    /\ op = "register"
    /\ pc = "AWAITING_API_SECRET"
    /\ registration' = [registration EXCEPT !.user_data.api_secret = "secret",
                                            !.reply = "send_amount"]
    /\ pc' = "AWAITING_AMOUNT"
    /\ UNCHANGED <<close, message, summary, op, signal, db_subscribers,
                   auto_subscribers, manual_subscribers, tasks, completed,
                   db_signals, db_trades, api_calls, ret, run, victim, first,
                   size_args, size_ret, db_closed, notified>>

\* The row add_subscriber is asked to write.
SubscriberRow(reg, amount) ==
    [telegram_id |-> reg.user, api_key |-> reg.user_data.api_key,
     api_secret |-> reg.user_data.api_secret, trade_amount_usdt |-> amount]

\* _complete_registration, lines 262-368: the conversation it leaves behind
\* when the validation call ends as validation and add_subscriber as save.
\* user_data is cleared on line 343 only, after add_subscriber returned.
CompleteRegistration(reg, amount, validation, save) ==
    CASE reg.user_data.api_key = "absent" \/ reg.user_data.api_secret = "absent" ->
           [reg EXCEPT !.reply = "registration_failed"]
      [] validation = "timeout" ->
           [reg EXCEPT !.validation = validation, !.reply = "validation_timed_out"]
      [] validation = "no_balance" ->
           [reg EXCEPT !.validation = validation, !.reply = "invalid_credentials"]
      [] validation = "raise" ->
           [reg EXCEPT !.validation = validation, !.reply = "validation_failed"]
      [] save = "raise" ->
           [reg EXCEPT !.validation = validation, !.reply = "registration_failed"]
      [] OTHER ->
           Registration(reg.user, ClearedUserData, validation,
                        Append(reg.stored, SubscriberRow(reg, amount)),
                        "registration_complete")

\* register_amount, lines 235-254: an amount from 1 to 10000 completes the
\* registration (any other text is asked for again).
RegisterAmount ==
    /\ op = "register"
    /\ pc = "AWAITING_AMOUNT"
    /\ \E text \in AmountTexts, validation \in ValidationOutcomes,
          save \in {"ok", "raise"} :
        LET amount == AmountOfText(text)
        IN  /\ amount # None
            /\ amount >= 1
            /\ amount <= 10000
            /\ registration' = CompleteRegistration(registration, amount,
                                                    validation, save)
    /\ pc' = "END"
    /\ UNCHANGED <<close, message, summary, op, signal, db_subscribers,
                   auto_subscribers, manual_subscribers, tasks, completed,
                   db_signals, db_trades, api_calls, ret, run, victim, first,
                   size_args, size_ret, db_closed, notified>>

\* settings.default_trade_amount
DefaultTradeAmount == 50

\* register_skip_amount, lines 256-260.
RegisterSkipAmount ==
    /\ op = "register"
    /\ pc = "AWAITING_AMOUNT"
    /\ \E validation \in ValidationOutcomes, save \in {"ok", "raise"} :
          registration' = CompleteRegistration(registration, DefaultTradeAmount,
                                               validation, save)
    /\ pc' = "END"
    /\ UNCHANGED <<close, message, summary, op, signal, db_subscribers,
                   auto_subscribers, manual_subscribers, tasks, completed,
                   db_signals, db_trades, api_calls, ret, run, victim, first,
                   size_args, size_ret, db_closed, notified>>

\* register_cancel, lines 370-374: the fallback of every state.
RegisterCancel ==
    /\ op = "register"
    /\ pc \in {"AWAITING_API_KEY", "AWAITING_API_SECRET", "AWAITING_AMOUNT"}
    /\ registration' = [registration EXCEPT !.user_data = ClearedUserData,
                                            !.reply = "cancelled"]
    /\ pc' = "END"
    /\ UNCHANGED <<close, message, summary, op, signal, db_subscribers,
                   auto_subscribers, manual_subscribers, tasks, completed,
                   db_signals, db_trades, api_calls, ret, run, victim, first,
                   size_args, size_ret, db_closed, notified>>

\* One user, a stored subscriber or a new one, sends /register.
InitRegistration ==
    /\ op = "register"
    /\ signal \in {s \in Signals : s.leverage = 2 /\ s.entry_price = 2
                                   /\ s.stop_loss = None}
    /\ db_subscribers \in SubscriberLists
    /\ size_args = NoArgs
    /\ summary = NoSummary
    /\ message = NoMessage
    /\ registration \in { Registration(user, ClearedUserData, "none", <<>>, "none")
                            : user \in 1..(MaxSubs + 1) }
    /\ close = NoClose
    /\ Idle

NextRegistration ==
    \/ RegisterStart
    \/ RegisterApiKey
    \/ RegisterApiSecret
    \/ RegisterAmount
    \/ RegisterSkipAmount
    \/ RegisterCancel

SpecRegistration == InitRegistration /\ [][NextRegistration]_vars

\* ------------------------------------------- close_position on its own
\* TradeExecutor.close_position for an executor set up with the credentials
\* of one stored subscriber.
ClosePositionCall ==
    /\ op = "close_position"
    /\ pc = "start"
    /\ \E i \in 1..Len(db_subscribers), env \in CloseEnvs :
        LET executor == db_subscribers[i]
            out == ClosePosition(close, env)
        IN  /\ pc' = "returned"
            /\ tasks' = <<[st |-> "returned", env |-> env, result |-> out.result]>>
            /\ auto_subscribers' = <<executor>>
            /\ api_calls' = [api_calls EXCEPT
                                ![ClientAccount(executor)] = @ \o out.calls]
    /\ UNCHANGED <<close, registration, message, summary, op, signal,
                   db_subscribers, manual_subscribers, completed, db_signals,
                   db_trades, ret, run, victim, first, size_args, size_ret,
                   db_closed, notified>>

InitClose ==
    /\ op = "close_position"
    /\ signal \in {s \in Signals : s.leverage = 2 /\ s.entry_price = 2
                                   /\ s.stop_loss = None}
    /\ db_subscribers \in SubscriberLists
    /\ size_args = NoArgs
    /\ summary = NoSummary
    /\ message = NoMessage
    /\ registration = NoRegistration
    /\ close \in SignalCloses
    /\ Idle

NextClose == ClosePositionCall

SpecClose == InitClose /\ [][NextClose]_vars

\* ================================================================ properties
IsBroadcast == op = "broadcast_signal"
BroadcastReturned == IsBroadcast /\ pc = "returned"

StoredWithMode(mode) ==
    { db_subscribers[i] : i \in { j \in 1..Len(db_subscribers) :
                                    db_subscribers[j].trade_mode = mode } }

ResultsFor(id) ==
    { k \in 1..Len(ret.results) : ret.results[k].subscriber_id = id }

DeferredFor(id) ==
    { k \in 1..Len(ret.deferred) : ret.deferred[k].telegram_id = id }

IsOrderCall(c) == c.call \in {"create_market_order", "create_limit_order"}

\* C1 -- total coverage: when broadcast_signal returns, the result list has
\* as many entries as there are AUTO subscribers and exactly one entry per
\* AUTO subscriber id, whatever failed in the units.
TotalCoverage ==
    BroadcastReturned =>
        /\ Len(ret.results) = Cardinality(StoredWithMode("AUTO"))
        /\ \A s \in StoredWithMode("AUTO") :
              Cardinality(ResultsFor(s.telegram_id)) = 1

\* C1 witness: a broadcast over two AUTO subscribers returned two results
\* although one unit's order call failed and the other's task ended in an
\* exception.
TotalCoverageWitness ==
    /\ BroadcastReturned
    /\ Len(ret.results) = 2
    /\ \E i, j \in 1..Len(tasks) :
          /\ i # j
          /\ tasks[i].env.order_resp = "raise"
          /\ tasks[j].st = "raised"

\* C2 -- isolation: in the rerun of a broadcast in which one subscriber's
\* trading-API calls fail, the run returns and every other subscriber's
\* result has the status it had in the first run.
Isolation ==
    (run = 2 /\ pc \in {"returned", "raised"}) =>
        /\ pc = "returned"
        /\ Len(ret.results) = Len(first.statuses)
        /\ \A i \in 1..Len(ret.results) :
              auto_subscribers[i].api_secret # victim =>
                  ret.results[i].status = first.statuses[i]

\* C2 witness: the rerun returned, the victim's result turned from SUCCESS
\* into API_ERROR and another subscriber's result is still SUCCESS.
IsolationWitness ==
    /\ run = 2
    /\ pc = "returned"
    /\ \E i, j \in 1..Len(ret.results) :
          /\ auto_subscribers[i].api_secret = victim
          /\ first.statuses[i] = "SUCCESS"
          /\ ret.results[i].status = "API_ERROR"
          /\ auto_subscribers[j].api_secret # victim
          /\ ret.results[j].status = "SUCCESS"

\* C3 -- every subscriber that get_active_subscribers returned has, when
\* broadcast_signal returns, either exactly one result and no place in the
\* deferred list, or one place in the deferred list and no result.
EverySubscriberAccounted ==
    BroadcastReturned =>
        \A i \in 1..Len(db_subscribers) :
            LET id == db_subscribers[i].telegram_id
                r == Cardinality(ResultsFor(id))
                d == Cardinality(DeferredFor(id))
            IN  (r = 1 /\ d = 0) \/ (r = 0 /\ d = 1)

\* C4 -- leverage cap: every leverage-set call and every order call made on
\* an account carries min(signal.leverage, max_leverage of that subscriber).
LeverageCap ==
    \A a \in Ids :
        \A k \in 1..Len(api_calls[a]) :
            LET c == api_calls[a][k]
                cap == db_subscribers[a].max_leverage
            IN  (c.call = "leverage.set" \/ IsOrderCall(c)) =>
                    /\ c.leverage <= cap
                    /\ c.leverage <= signal.leverage
                    /\ c.leverage = cap \/ c.leverage = signal.leverage

\* C4 witness: a broadcast submitted an order at the subscriber's cap for a
\* signal that asks for more.
LeverageCapWitness ==
    /\ IsBroadcast
    /\ \E a \in Ids :
          \E k \in 1..Len(api_calls[a]) :
              /\ IsOrderCall(api_calls[a][k])
              /\ api_calls[a][k].leverage = db_subscribers[a].max_leverage
              /\ signal.leverage > db_subscribers[a].max_leverage

\* C5 -- execute_single_trade and execute_with_amount never raise, whatever
\* external call fails.
ConfirmationNeverRaises ==
    op \in {"execute_single_trade", "execute_with_amount"} => pc # "raised"

\* C6 -- a broadcast_signal call that returns has written the signal record
\* exactly once, for every list of active subscribers.
SignalSavedOnce ==
    BroadcastReturned => db_signals = 1

\* C7 -- no trading-API call is made and no task exists in a broadcast before
\* save_signal has written the signal; none ever is when save_signal fails.
SavedBeforeAnyCall ==
    (IsBroadcast /\ db_signals = 0) =>
        /\ tasks = <<>>
        /\ \A a \in Ids : api_calls[a] = <<>>

\* C7 witness: the signal is written and a unit has called the trading API.
SavedBeforeAnyCallWitness ==
    /\ IsBroadcast
    /\ run = 1
    /\ db_signals = 1
    /\ \E a \in Ids : api_calls[a] # <<>>

ResultsInSuppliedOrder ==
    BroadcastReturned =>
        /\ Len(ret.results) = Cardinality(StoredWithMode("AUTO"))
        /\ \A k \in 1..Len(ret.results) :
              \E s \in StoredWithMode("AUTO") :
                  s.telegram_id = ret.results[k].subscriber_id
        /\ \A k, l \in 1..Len(ret.results) :
              k < l => \E i, j \in 1..Len(db_subscribers) :
                          /\ i < j
                          /\ db_subscribers[i].telegram_id =
                                ret.results[k].subscriber_id
                          /\ db_subscribers[j].telegram_id =
                                ret.results[l].subscriber_id

\* C9 witness: the second task ended first and the first ended in an
\* exception that was converted to API_ERROR.
ResultsInSuppliedOrderWitness ==
    /\ BroadcastReturned
    /\ completed = <<2, 1>>
    /\ tasks[1].st = "raised"
    /\ ret.results[1].status = "API_ERROR"

\* C10 -- a broadcast makes no trading-API call and writes no trade record
\* for a MANUAL subscriber, and returns as deferred exactly the MANUAL
\* subscribers, as stored and in the supplied order.
ManualUntouched ==
    IsBroadcast =>
        /\ \A s \in StoredWithMode("MANUAL") :
              /\ api_calls[s.api_secret] = <<>>
              /\ db_trades[s.telegram_id] = <<>>
        /\ pc = "returned" =>
              /\ Len(ret.deferred) = Cardinality(StoredWithMode("MANUAL"))
              /\ \A k \in 1..Len(ret.deferred) :
                    ret.deferred[k] \in StoredWithMode("MANUAL")
              /\ \A k, l \in 1..Len(ret.deferred) :
                    k < l => \E i, j \in 1..Len(db_subscribers) :
                                /\ i < j
                                /\ db_subscribers[i] = ret.deferred[k]
                                /\ db_subscribers[j] = ret.deferred[l]

\* C10 witness: a broadcast over an AUTO and a MANUAL subscriber returned
\* after the AUTO unit called the trading API.
ManualUntouchedWitness ==
    /\ BroadcastReturned
    /\ Len(ret.deferred) = 1
    /\ Len(ret.results) = 1
    /\ \E a \in Ids : api_calls[a] # <<>>

\* ----------------------------------------------- one unit and its call trace
\* The units that have run: task i ran for auto_subscribers[i], in the
\* environment tasks[i].env, and made UnitCalls(i) on the subscriber's account.
Units == { i \in 1..Len(tasks) : tasks[i].st \in {"returned", "raised"} }

UnitCalls(i) == api_calls[auto_subscribers[i].api_secret]

BroadcasterOps == {"broadcast_signal", "execute_single_trade", "execute_with_amount"}

\* The units of _execute_trade_sync whose client was built.
BroadcasterUnits ==
    IF op \in BroadcasterOps
    THEN { i \in Units : tasks[i].env.client = "ok" }
    ELSE {}

HasCall(i, names) ==
    \E k \in 1..Len(UnitCalls(i)) : UnitCalls(i)[k].call \in names

OrderCalls == {"create_market_order", "create_limit_order"}
RiskCalls == {"list_open", "set_risk_order"}

HasSlTp == Truthy(signal.stop_loss) \/ Truthy(signal.take_profit)

\* The unit's order call was made and accepted.
OrderAccepted(i) == HasCall(i, OrderCalls) /\ tasks[i].env.order_resp = "ok"

\* C11 -- non-fatal risk-order attachment: a unit (of the broadcaster or of
\* TradeExecutor) whose order was accepted for a signal with SL or TP ends in
\* SUCCESS; when list_open raised, no position matched or set_risk_order
\* raised, its message says that SL/TP was not applied; the message says
\* "SL/TP set" only when set_risk_order was called and returned.
RiskAttachNonFatal ==
    \A i \in Units :
        (OrderAccepted(i) /\ HasSlTp) =>
            LET t == tasks[i]
                failed == \/ t.env.positions_resp \in {"raise", "none"}
                          \/ t.env.risk_resp = "raise"
            IN  /\ t.result.status = "SUCCESS"
                /\ failed => t.result.message \in
                                {"sltp_failed", "no_position", "sltp_pending"}
                /\ t.result.message = "sltp_set" =>
                      /\ HasCall(i, {"set_risk_order"})
                      /\ t.env.risk_resp = "ok"

\* C11 witness: a broadcaster unit's set_risk_order raised after its order
\* was accepted, and the unit returned SUCCESS with the failure in its message.
RiskAttachNonFatalWitness ==
    \E i \in BroadcasterUnits :
        /\ OrderAccepted(i)
        /\ HasSlTp
        /\ HasCall(i, {"set_risk_order"})
        /\ tasks[i].env.risk_resp = "raise"
        /\ tasks[i].result.status = "SUCCESS"
        /\ tasks[i].result.message = "sltp_failed"

\* The subscriber a unit ran for and the balance its balance query fetched.
UnitAmount(i) == auto_subscribers[i].trade_amount_usdt

FetchedBalance(i) ==
    IF tasks[i].env.balance_resp = "none" THEN 0 ELSE tasks[i].env.balance

\* The balance query returned and the balance is below the trade amount.
BalanceShort(i) ==
    /\ tasks[i].env.balance_resp # "raise"
    /\ FetchedBalance(i) < UnitAmount(i)

\* C12 -- two-tier insufficiency: a broadcaster unit that fetched a balance
\* below the trade amount returns INSUFFICIENT_BALANCE and its only
\* trading-API call is the balance query; below the 1 USDT floor the
\* available_balance it carries, if any, is below the floor (nothing an
\* override retry could use), at or above the floor it is the fetched balance.
TwoTierInsufficiency ==
    \A i \in BroadcasterUnits :
        BalanceShort(i) =>
            LET r == tasks[i].result
            IN  /\ r.status = "INSUFFICIENT_BALANCE"
                /\ Len(UnitCalls(i)) = 1
                /\ UnitCalls(i)[1].call = "get_futures_balance"
                /\ IF FetchedBalance(i) < MIN_BALANCE_USDT
                   THEN r.available_balance < MIN_BALANCE_USDT
                   ELSE r.available_balance = FetchedBalance(i)

\* C12 witness: in one broadcast one unit fetched a balance of 0 and another
\* a balance of 20 for a trade amount of 50, which its result carries.
TwoTierInsufficiencyWitness ==
    /\ IsBroadcast
    /\ \E i, j \in BroadcasterUnits :
          /\ BalanceShort(i)
          /\ FetchedBalance(i) < MIN_BALANCE_USDT
          /\ tasks[i].result.message = "balance_too_low"
          /\ BalanceShort(j)
          /\ FetchedBalance(j) >= MIN_BALANCE_USDT
          /\ tasks[j].result.available_balance = 20
          /\ tasks[j].result.status = "INSUFFICIENT_BALANCE"

\* The price the unit sizes with, and what the broadcaster's sizing gives.
UnitPrice == IF Truthy(signal.entry_price) THEN signal.entry_price ELSE 1

UnitSized(i) ==
    CalculateOrderFromUsd(UnitAmount(i), UnitPrice,
                          tasks[i].env.asset.quantity_step)

\* The unit got as far as sizing the order: leverage.set returned.
SizingReached(i) ==
    HasCall(i, {"leverage.set"}) /\ tasks[i].env.leverage_resp = "ok"

\* C13 -- minimum notional: a broadcaster unit whose sized order is worth less
\* than 5 USDT returns API_ERROR and makes no order call, whatever the amount,
\* the price and the lot step, also when the quantity is within the
\* instrument's bounds; every order call that is made is worth 5 USDT or more.
MinNotionalRejected ==
    \A i \in BroadcasterUnits :
        /\ (SizingReached(i) /\ UnitSized(i).actual_value < MIN_NOTIONAL_USDT * QScale) =>
              /\ tasks[i].result.status = "API_ERROR"
              /\ ~HasCall(i, OrderCalls)
        /\ \A k \in 1..Len(UnitCalls(i)) :
              IsOrderCall(UnitCalls(i)[k]) =>
                  UnitCalls(i)[k].quantity * UnitPrice >= MIN_NOTIONAL_USDT * QScale
        /\ tasks[i].result.status = "SUCCESS" =>
              tasks[i].result.actual_value >= MIN_NOTIONAL_USDT * QScale

\* C13 witness: a unit was rejected for an order worth less than 5 USDT whose
\* quantity lies within the instrument's minimum and maximum.
MinNotionalRejectedWitness ==
    \E i \in BroadcasterUnits :
        /\ SizingReached(i)
        /\ UnitSized(i).actual_value < MIN_NOTIONAL_USDT * QScale
        /\ UnitSized(i).qty >= tasks[i].env.asset.min_quantity
        /\ UnitSized(i).qty <= tasks[i].env.asset.max_quantity
        /\ tasks[i].result.status = "API_ERROR"
        /\ tasks[i].result.message = "below_min_notional"

\* C14 -- a broadcaster unit whose leverage.set call raised returns API_ERROR
\* and makes no order call.
LeverageFailureStops ==
    \A i \in BroadcasterUnits :
        (HasCall(i, {"leverage.set"}) /\ tasks[i].env.leverage_resp = "raise") =>
            /\ tasks[i].result.status = "API_ERROR"
            /\ tasks[i].result.order_id = None
            /\ ~HasCall(i, OrderCalls)

\* C14 witness: a unit passed the balance check and the instrument lookup,
\* its leverage.set raised and it returned API_ERROR.
LeverageFailureStopsWitness ==
    \E i \in BroadcasterUnits :
        /\ HasCall(i, {"leverage.set"})
        /\ tasks[i].env.leverage_resp = "raise"
        /\ Len(UnitCalls(i)) = 3
        /\ tasks[i].result.status = "API_ERROR"

\* Some call named in names comes before the k-th call on account a.
CalledBefore(a, k, names) ==
    \E j \in 1..(k - 1) : api_calls[a][j].call \in names

\* C15 -- causal order within a unit (of the broadcaster or of TradeExecutor):
\* in the calls made on an account every order submission comes after a
\* balance query, and every list_open and set_risk_order after an order
\* submission.
CausalOrder ==
    \A a \in Ids :
        \A k \in 1..Len(api_calls[a]) :
            LET c == api_calls[a][k]
            IN  /\ IsOrderCall(c) => CalledBefore(a, k, {"get_futures_balance"})
                /\ c.call \in RiskCalls => CalledBefore(a, k, OrderCalls)

\* C15 witness: a unit queried the balance, submitted the order, listed the
\* positions and attached the risk order.
CausalOrderWitness ==
    \E a \in Ids :
        \E k \in 1..Len(api_calls[a]) :
            /\ api_calls[a][k].call = "set_risk_order"
            /\ CalledBefore(a, k, OrderCalls)
            /\ CalledBefore(a, k, {"get_futures_balance"})

\* The steps of the broadcaster unit that call the trading API, in order.
StepCalls ==
    << {"get_futures_balance"}, {"assets.get"}, {"leverage.set"}, OrderCalls,
       {"list_open"}, {"set_risk_order"} >>

\* The number of the step that failed in unit i (7: none did).
FailedStep(i) ==
    LET env == tasks[i].env
    IN  CASE env.balance_resp = "raise" \/ BalanceShort(i) -> 1
          [] env.asset_resp \in {"raise", "none"} -> 2
          [] env.leverage_resp = "raise" -> 3
          [] UnitSized(i).actual_value < MIN_NOTIONAL_USDT * QScale -> 3
          [] UnitSized(i).qty < env.asset.min_quantity -> 3
          [] env.order_resp = "raise" -> 4
          [] env.positions_resp \in {"raise", "none"} -> 5
          [] OTHER -> 7

\* C16 -- terminal at the first failure: a broadcaster unit makes its calls in
\* the order of its steps and none after the step that failed; an order call
\* is made only when the balance covered the amount, the instrument was
\* found, leverage.set returned and the sized value was at least 5 USDT.
TerminalAtFirstFailure ==
    \A i \in BroadcasterUnits :
        LET env == tasks[i].env
            calls == UnitCalls(i)
        IN  /\ Len(calls) <= Len(StepCalls)
            /\ \A k \in 1..Len(calls) : calls[k].call \in StepCalls[k]
            /\ Len(calls) <= FailedStep(i)
            /\ HasCall(i, OrderCalls) =>
                  /\ env.balance_resp # "raise"
                  /\ FetchedBalance(i) >= UnitAmount(i)
                  /\ env.asset_resp = "found"
                  /\ env.leverage_resp = "ok"
                  /\ UnitSized(i).actual_value >= MIN_NOTIONAL_USDT * QScale

\* C16 witness: a broadcast in which one unit stopped at a balance of 20 for
\* an amount of 50 and another stopped at the instrument lookup.
TerminalAtFirstFailureWitness ==
    /\ IsBroadcast
    /\ \E i, j \in BroadcasterUnits :
          /\ FailedStep(i) = 1
          /\ FetchedBalance(i) = 20
          /\ Len(UnitCalls(i)) = 1
          /\ tasks[j].env.asset_resp = "none"
          /\ Len(UnitCalls(j)) = 2
          /\ tasks[j].result.status = "SYMBOL_NOT_FOUND"

\* C17 -- a broadcaster unit whose order call failed returns API_ERROR
\* without an order id and makes no list_open or set_risk_order call.
OrderFailureTerminal ==
    \A i \in BroadcasterUnits :
        (HasCall(i, OrderCalls) /\ tasks[i].env.order_resp = "raise") =>
            /\ tasks[i].result.status = "API_ERROR"
            /\ tasks[i].result.order_id = None
            /\ ~HasCall(i, RiskCalls)

\* C17 witness: the order call of a unit failed for a signal that carries
\* SL/TP, and the order call was the unit's last call.
OrderFailureTerminalWitness ==
    \E i \in BroadcasterUnits :
        /\ HasSlTp
        /\ tasks[i].env.order_resp = "raise"
        /\ Len(UnitCalls(i)) = 4
        /\ IsOrderCall(UnitCalls(i)[4])
        /\ tasks[i].result.status = "API_ERROR"

\* ---------------------------------------------------------- the lot sizer
\* The lot sizer was called and returned.
Sized == size_ret # NoSize

\* C18 -- lot sizer rounding: for price > 0, quantity_step > 0 and the default
\* bounds the returned quantity is a multiple of quantity_step, is not above
\* usd_amount / price, and one step more would be above it.
RoundsDownToStep ==
    (/\ Sized
     /\ size_args.price > 0
     /\ size_args.quantity_step > 0
     /\ size_args.min_quantity = 0
     /\ size_args.max_quantity = Infinity) =>
        /\ size_ret.qty % size_args.quantity_step = 0
        /\ size_ret.qty * size_args.price <= size_args.usd_amount * QScale
        /\ (size_ret.qty + size_args.quantity_step) * size_args.price >
              size_args.usd_amount * QScale

\* usd_amount / price, as a scaled quantity cut to two decimals.
RawQuantity == (size_args.usd_amount * QScale) \div size_args.price

\* C19 -- lot sizer clamp: for price > 0 and min_quantity <= max_quantity the
\* returned quantity lies in [min_quantity, max_quantity], is min_quantity
\* when usd_amount / price is below it, and the returned value is the
\* returned quantity times the price.
ClampedToBounds ==
    (/\ Sized
     /\ size_args.price > 0
     /\ size_args.min_quantity <= size_args.max_quantity) =>
        /\ size_ret.qty >= size_args.min_quantity
        /\ size_ret.qty <= size_args.max_quantity
        /\ RawQuantity < size_args.min_quantity =>
              size_ret.qty = size_args.min_quantity
        /\ size_ret.actual_value = size_ret.qty * size_args.price

\* C19 witness: the sizer raised a quantity of less than 3 to the minimum 3,
\* and the value it returned is that of the minimum, above the usd amount.
ClampedToBoundsWitness ==
    /\ Sized
    /\ op = "calculate_quantity_from_usd"
    /\ size_args.price > 0
    /\ size_args.min_quantity = 300
    /\ size_args.max_quantity = Infinity
    /\ RawQuantity > 0
    /\ RawQuantity < size_args.min_quantity
    /\ size_ret.qty = 300
    /\ size_ret.actual_value > size_args.usd_amount * QScale

\* C20 -- zero-price guard: calculate_quantity_from_usd called with a price
\* of zero or less returns quantity 0 and value 0, whatever the amount, the
\* step and the bounds; execute_signal, when the sizer returned quantity 0,
\* makes no order call.
ZeroPriceGuard ==
    /\ (Sized /\ size_args.price <= 0) =>
          /\ size_ret.qty = 0
          /\ size_ret.actual_value = 0
    /\ (Sized /\ op = "execute_signal" /\ size_ret.qty = 0) =>
          /\ \A a \in Ids : \A k \in 1..Len(api_calls[a]) :
                ~IsOrderCall(api_calls[a][k])
          /\ \A i \in Units : tasks[i].result.status = "ORDER_FAILED"

\* C20 witness: execute_signal sized a signal with a negative entry price for
\* an instrument with a positive minimum quantity, got quantity 0 and
\* returned ORDER_FAILED after leverage.set, its last call.
ZeroPriceGuardWitness ==
    /\ op = "execute_signal"
    /\ pc = "returned"
    /\ Sized
    /\ size_args.price < 0
    /\ size_args.min_quantity > 0
    /\ size_ret.qty = 0
    /\ \E i \in Units :
          /\ tasks[i].result.status = "ORDER_FAILED"
          /\ Len(UnitCalls(i)) = 3

\* ------------------------------------------------------ confirmation path
\* The unit that execute_with_amount ran used amount for its balance check
\* and for sizing the order.
UnitUsedAmount(amount) ==
    LET env == tasks[1].env
        sized == CalculateOrderFromUsd(amount, UnitPrice, env.asset.quantity_step)
    IN  /\ (env.client = "ok" /\ env.balance_resp # "raise") =>
              (tasks[1].result.status = "INSUFFICIENT_BALANCE"
                  <=> FetchedBalance(1) < amount)
        /\ \A k \in 1..Len(UnitCalls(1)) :
              IsOrderCall(UnitCalls(1)[k]) => UnitCalls(1)[k].quantity = sized.qty
        /\ tasks[1].result.status = "SUCCESS" =>
              /\ tasks[1].result.quantity = sized.qty
              /\ tasks[1].result.actual_value = sized.actual_value

\* C21 -- execute_with_amount leaves the stored subscribers as they were; the
\* subscriber its unit runs for is a stored subscriber with trade_amount_usdt
\* replaced by the override amount and every other field the same, and the
\* unit uses that amount for the balance check and for sizing.
OverrideIsACopy ==
    [][(op = "execute_with_amount" /\ pc = "start" /\ pc' # "start") =>
          /\ db_subscribers' = db_subscribers
          /\ \E i \in 1..Len(db_subscribers), amount \in OverrideAmounts :
                /\ auto_subscribers' =
                      <<[db_subscribers[i] EXCEPT !.trade_amount_usdt = amount]>>
                /\ UnitUsedAmount(amount)']_vars

\* C21 witness: a stored subscriber whose amount is 50 traded with an override
\* of 20 on a balance of 20, and is still stored with 50.
OverrideIsACopyWitness ==
    /\ op = "execute_with_amount"
    /\ pc = "returned"
    /\ UnitAmount(1) = 20
    /\ FetchedBalance(1) = 20
    /\ tasks[1].result.status = "SUCCESS"
    /\ \E i \in 1..Len(db_subscribers) :
          /\ db_subscribers[i].telegram_id = auto_subscribers[1].telegram_id
          /\ db_subscribers[i].trade_amount_usdt = 50
          /\ db_subscribers[i].max_leverage = auto_subscribers[1].max_leverage

\* ------------------------------------------------------------ broadcast_close
NoAccountTouched ==
    \A a \in Ids : api_calls[a] = <<>> /\ db_trades[a] = <<>>

OrderCallCount(a) ==
    Cardinality({ k \in 1..Len(api_calls[a]) : IsOrderCall(api_calls[a][k]) })

\* The tasks created for the subscriber with telegram_id id.
TasksFor(id) ==
    { i \in 1..Len(tasks) : auto_subscribers[i].telegram_id = id }

\* C23 -- at most one attempt: in a broadcast every AUTO subscriber has, once
\* the tasks exist, exactly one task, which has ended exactly once when the
\* broadcast returns, and at most one order call is ever made on an account,
\* also when that call failed.
AtMostOneAttempt ==
    IsBroadcast =>
        /\ \A a \in Ids : OrderCallCount(a) <= 1
        /\ tasks # <<>> =>
              \A s \in StoredWithMode("AUTO") :
                  Cardinality(TasksFor(s.telegram_id)) = 1
        /\ pc = "returned" =>
              /\ Len(completed) = Len(tasks)
              /\ \A i \in 1..Len(tasks) :
                    Cardinality({ k \in 1..Len(completed) : completed[k] = i }) = 1

\* C23 witness: a broadcast over two AUTO subscribers returned; one order call
\* failed and was the only one on its account, the other was accepted.
AtMostOneAttemptWitness ==
    /\ BroadcastReturned
    /\ \E i, j \in BroadcasterUnits :
          /\ tasks[i].env.order_resp = "raise"
          /\ OrderCallCount(auto_subscribers[i].api_secret) = 1
          /\ tasks[i].result.status = "API_ERROR"
          /\ OrderAccepted(j)
          /\ OrderCallCount(auto_subscribers[j].api_secret) = 1

\* ------------------------------------------------------------ notifications
HandlerEnded == op = "handle_new_signal" /\ pc \in {"handled", "handler_raised"}

\* C24 -- once _handle_new_signal has ended after a broadcast that returned,
\* every subscriber that has a TradeResult in the broadcast has been sent
\* exactly one outcome notification.
EveryResultNotifiedOnce ==
    HandlerEnded =>
        \A k \in 1..Len(ret.results) :
            notified[ret.results[k].subscriber_id] = 1

\* C25 -- a broadcast_signal call never raises: whatever trading-API call and
\* whatever persistence call (get_active_subscribers, save_signal,
\* record_trade) fails, the call ends by returning its pair.
BroadcastNeverRaises ==
    IsBroadcast => (pc # "raised" /\ ret.kind # "raised")

\* ------------------------------------------------------------- worker threads
\* C26 -- a never-returning trading-API call in one subscriber's unit does not
\* keep another AUTO subscriber's unit from running: while some unit hangs,
\* every unit that has not started yet can get a thread, now or when a
\* running unit returns.
OthersNotBlocked ==
    \A i, j \in 1..Len(tasks) :
        (tasks[j].st = "hung" /\ tasks[i].st = "pending") =>
            \/ BusyWorkers < MaxWorkers
            \/ \E k \in 1..Len(tasks) : tasks[k].st = "running"

\* ------------------------------------------------------------------ SL/TP
\* C27 -- a broadcaster unit calls list_open or set_risk_order only for a
\* signal with a stop-loss or a take-profit and after its order was accepted;
\* for a signal with neither, a successful unit's last call is the order call
\* and its message has no SL/TP note.
RiskAttachOnlyWhenAsked ==
    \A i \in BroadcasterUnits :
        /\ HasCall(i, RiskCalls) => (HasSlTp /\ OrderAccepted(i))
        /\ (~HasSlTp /\ tasks[i].result.status = "SUCCESS") =>
              /\ tasks[i].result.message = "plain"
              /\ IsOrderCall(UnitCalls(i)[Len(UnitCalls(i))])

\* C27 witness: a unit traded a signal without SL and TP; the order was
\* accepted, the unit made four calls and its message has no SL/TP note.
RiskAttachOnlyWhenAskedWitness ==
    \E i \in BroadcasterUnits :
        /\ ~HasSlTp
        /\ OrderAccepted(i)
        /\ Len(UnitCalls(i)) = 4
        /\ tasks[i].result.status = "SUCCESS"
        /\ tasks[i].result.message = "plain"

\* ----------------------------------------------------- TradeResult fields
\* available_balance is set only with INSUFFICIENT_BALANCE; order_id, quantity
\* and actual_value only with SUCCESS.
FieldsMatchStatus(r) ==
    /\ r.available_balance # None => r.status = "INSUFFICIENT_BALANCE"
    /\ r.order_id # None => r.status = "SUCCESS"
    /\ r.quantity # None => r.status = "SUCCESS"
    /\ r.actual_value # None => r.status = "SUCCESS"

\* C28 -- every TradeResult the unit produced and every TradeResult the
\* coordinator or a confirmation entry point returned has available_balance
\* set only when its status is INSUFFICIENT_BALANCE and order_id, quantity
\* and actual_value set only when it is SUCCESS.
OptionalFieldsByStatus ==
    op \in BroadcasterOps =>
        /\ \A i \in Units : FieldsMatchStatus(tasks[i].result)
        /\ \A k \in 1..Len(ret.results) : FieldsMatchStatus(ret.results[k])

\* C28 witness: a broadcast returned an INSUFFICIENT_BALANCE result that
\* carries the balance, beside a SUCCESS result that carries the order and
\* no balance.
OptionalFieldsByStatusWitness ==
    /\ BroadcastReturned
    /\ \E k, l \in 1..Len(ret.results) :
          /\ ret.results[k].status = "INSUFFICIENT_BALANCE"
          /\ ret.results[k].available_balance = 20
          /\ ret.results[k].order_id = None
          /\ ret.results[l].status = "SUCCESS"
          /\ ret.results[l].order_id # None
          /\ ret.results[l].available_balance = None

\* ------------------------------------------------------- accepted orders
\* C29 -- when a broadcast returns, every subscriber for whom the trading API
\* accepted an order has a SUCCESS result that carries the order's id,
\* whatever happened in the risk-order attachment and the trade-record write.
AcceptedOrderReported ==
    BroadcastReturned =>
        \A i \in 1..Len(tasks) :
            OrderAccepted(i) =>
                /\ ret.results[i].status = "SUCCESS"
                /\ ret.results[i].order_id = OrderIdOf(auto_subscribers[i])

\* The unit's leverage.set call returned: the account's leverage for the
\* symbol is now the one the unit asked for.
LeverageChanged(i) ==
    HasCall(i, {"leverage.set"}) /\ tasks[i].env.leverage_resp = "ok"

\* C30 -- a broadcaster unit that made no order call made no state-changing
\* call on the account: in particular it has not changed the account's
\* leverage when it was rejected by the minimum-notional or the
\* minimum-quantity check.
NoOrderNoAccountChange ==
    \A i \in BroadcasterUnits :
        ~HasCall(i, OrderCalls) => ~LeverageChanged(i)

\* ------------------------------------------------------ instrument bounds
\* C31 -- every order call of a broadcaster unit carries a quantity within
\* the [min_quantity, max_quantity] that the unit's instrument lookup returned.
OrderWithinInstrumentBounds ==
    \A i \in BroadcasterUnits :
        \A k \in 1..Len(UnitCalls(i)) :
            IsOrderCall(UnitCalls(i)[k]) =>
                /\ UnitCalls(i)[k].quantity >= tasks[i].env.asset.min_quantity
                /\ UnitCalls(i)[k].quantity <= tasks[i].env.asset.max_quantity

\* ------------------------------------------------------- value and amount
\* C32 -- the value of every order a unit submits (of the broadcaster or of
\* TradeExecutor.execute_signal), its quantity at the sizing price, is not
\* above the trade amount the unit ran with, also when the quantity was
\* raised to the instrument's min_quantity.
OrderValueWithinAmount ==
    \A i \in Units :
        \A k \in 1..Len(UnitCalls(i)) :
            IsOrderCall(UnitCalls(i)[k]) =>
                UnitCalls(i)[k].quantity * UnitPrice <= UnitAmount(i) * QScale

\* ------------------------------------------------------------ limit orders
\* C33 -- every limit order a unit submits (of the broadcaster or of
\* TradeExecutor.execute_signal) carries the signal's entry price, which is
\* set; for a LIMIT signal without an entry price no order call is made.
LimitOrderAtEntryPrice ==
    \A i \in Units :
        /\ \A k \in 1..Len(UnitCalls(i)) :
              UnitCalls(i)[k].call = "create_limit_order" =>
                  /\ Truthy(signal.entry_price)
                  /\ UnitCalls(i)[k].price = signal.entry_price
        /\ (signal.order_type = "LIMIT" /\ ~Truthy(signal.entry_price)) =>
              ~HasCall(i, OrderCalls)

\* ------------------------------------------------- retry with the balance
\* C34 -- when a unit returned INSUFFICIENT_BALANCE with an available_balance
\* at or above the 1 USDT floor, execute_with_amount with that balance as the
\* override, on the unchanged account and with every call succeeding, passes
\* the balance check, submits an order and returns SUCCESS.
RetryWithAvailableSucceeds ==
    (/\ op = "retry_with_available"
     /\ run = 2
     /\ tasks[1].env.record_resp = "ok") =>
        /\ pc = "returned"
        /\ HasCall(1, {"assets.get"})
        /\ HasCall(1, OrderCalls)
        /\ tasks[1].result.status = "SUCCESS"

\* ------------------------------------------------- failed balance queries
\* C35 -- a unit (of the broadcaster or of TradeExecutor.execute_signal)
\* returns INSUFFICIENT_BALANCE only when its balance query returned and the
\* balance is below the trade amount, never when the query raised.
InsufficientOnlyWhenFetched ==
    \A i \in Units :
        tasks[i].result.status = "INSUFFICIENT_BALANCE" =>
            /\ tasks[i].env.balance_resp # "raise"
            /\ FetchedBalance(i) < UnitAmount(i)

\* ------------------------------------------------------- summary counts
\* C36 -- in the text format_broadcast_summary returns, the counts of the
\* lines Success, Insufficient Balance, Failed and Manual add up to the Total,
\* for every list of results and every manual_count.
SummaryCountsAddUp ==
    (op = "format_broadcast_summary" /\ pc = "returned") =>
        summary.shown.success + summary.shown.insufficient
            + summary.shown.failed + summary.shown.manual = summary.shown.total

\* ------------------------------------------------------------ the signal gate
\* Something of a broadcast has happened: the handler went on to the
\* broadcaster, a signal or a close was written, a unit ran or traded.
BroadcastTriggered ==
    \/ op \in {"handle_new_signal", "broadcast_close"}
    \/ db_signals > 0
    \/ db_closed > 0
    \/ tasks # <<>>
    \/ \E a \in Ids : api_calls[a] # <<>> \/ db_trades[a] # <<>>

\* C37 -- a message causes a broadcast (broadcast_signal or broadcast_close),
\* and with it any trade, only when it is a command that comes from the admin
\* in a private chat or from the signal channel.
OnlyAuthorizedBroadcast ==
    BroadcastTriggered =>
        /\ message.text = "command"
        /\ \/ (message.user_id = AdminTelegramId /\ message.chat_type = "private")
           \/ message.chat_id = SignalChannelId

\* C37 witness: a command the admin sent in a private chat that is not the
\* signal channel was broadcast and a unit traded on a subscriber's account.
OnlyAuthorizedBroadcastWitness ==
    /\ op = "handle_new_signal"
    /\ pc = "returned"
    /\ message.user_id = AdminTelegramId
    /\ message.chat_type = "private"
    /\ message.chat_id # SignalChannelId
    /\ \E a \in Ids : \E k \in 1..Len(api_calls[a]) : IsOrderCall(api_calls[a][k])

\* ------------------------------------------------------------ registration
\* C38 -- when the registration conversation has ended, however it ended,
\* user_data holds neither the API key nor the API secret; and a subscriber
\* has been stored only when the validation call returned a balance.
CredentialsClearedAtEnd ==
    (op = "register" /\ pc = "END") =>
        /\ registration.user_data = ClearedUserData
        /\ registration.stored # <<>> => registration.validation = "balance"

\* ------------------------------------------------------------ close_position
\* C39 -- close_position makes the full-close call only for a close signal
\* without partial_percent or with one of 100 or more; for every
\* partial_percent below 100, 0 included, it makes a partial-close call whose
\* quantity is a multiple of the instrument's lot step and is not above the
\* position's quantity.
PartialCloseBelowHundred ==
    (op = "close_position" /\ pc = "returned"
        /\ tasks[1].env.position_resp = "found") =>
        LET env == tasks[1].env
            part == close.partial_percent # None /\ close.partial_percent < 100
        IN  /\ HasCall(1, {"positions.close"}) => ~part
            /\ part =>
                  \E k \in 1..Len(UnitCalls(1)) :
                      /\ UnitCalls(1)[k].call = "positions.close_partial"
                      /\ UnitCalls(1)[k].quantity <= env.position.quantity
                      /\ env.asset_resp = "found" =>
                            UnitCalls(1)[k].quantity % env.asset.quantity_step = 0

====
